---- MODULE Spec2Model ----
(***************************************************************************)
(* ThrowbackThursdayMonitor: the run pipeline BrowserWebChecker.go() of    *)
(* src/src/browser_scraper.py (the program main.py starts), the first      *)
(* generation WebChecker.go() of src/src/checker.py, the JSON state store  *)
(* both share and the Discord notifier.                                    *)
(*                                                                         *)
(* Python values are tagged records: None, a str (its code points), a dict *)
(* (a function from keys to values).  Text on disk is modelled by the      *)
(* characters json.dumps writes for every scalar; the nesting of objects   *)
(* is kept as structure.                                                   *)
(***************************************************************************)
EXTENDS Integers, Sequences, FiniteSets, TLC

(***************************************************************************)
(* Python values                                                           *)
(***************************************************************************)
None == [k |-> "none"]

Str(s) == [k |-> "str", s |-> s]

Dict(m) == [k |-> "dict", m |-> m]

EmptyDict == Dict(<<>>)

\* bool(v) for an Optional[str]: None and "" are falsy
Truthy(v) == v.k = "str" /\ v.s # <<>>

\* a < b for two str, by code points, as Python compares them
StrLess(a, b) ==
    \/ /\ Len(a) < Len(b)
       /\ \A i \in 1..Len(a) : a[i] = b[i]
    \/ \E i \in 1..Len(a) :
          /\ i <= Len(b)
          /\ a[i] < b[i]
          /\ \A j \in 1..(i - 1) : a[j] = b[j]

\* d.get(key)
DictGet(d, key) == IF key \in DOMAIN d.m THEN d.m[key] ELSE None

\* d[key] = v
DictSet(d, key, v) ==
    Dict([x \in (DOMAIN d.m) \cup {key} |-> IF x = key THEN v ELSE d.m[x]])

(***************************************************************************)
(* json.dumps and json.loads                                               *)
(***************************************************************************)
Quote == 34
Backslash == 92
LetterU == 117
MaxAscii == 126
NullText == <<110, 117, 108, 108>>

HexDigit(n) == IF n < 10 THEN 48 + n ELSE 87 + n

HexValue(c) == IF c >= 97 THEN c - 87 ELSE c - 48

\* \uXXXX of a code point
Hex4(c) ==
    << HexDigit((c \div 4096) % 16), HexDigit((c \div 256) % 16),
       HexDigit((c \div 16) % 16), HexDigit(c % 16) >>

\* EscapeStr with the quote left as it is
RECURSIVE EscapeStr_NoQuote(_)
EscapeStr_NoQuote(s) ==
    IF s = <<>> THEN <<>>
    ELSE LET c == Head(s)
             e == IF c = Backslash THEN <<Backslash, c>>
                  ELSE IF c > MaxAscii THEN <<Backslash, LetterU>> \o Hex4(c)
                  ELSE <<c>>
         IN e \o EscapeStr_NoQuote(Tail(s))

RECURSIVE EscapeStr(_)
EscapeStr(s) ==
    IF s = <<>> THEN <<>>
    ELSE LET c == Head(s)
             e == IF c = Quote \/ c = Backslash THEN <<Backslash, c>>
                  ELSE IF c > MaxAscii THEN <<Backslash, LetterU>> \o Hex4(c)
                  ELSE <<c>>
         IN e \o EscapeStr(Tail(s))

\* the text json.dumps writes for a value
RECURSIVE JsonDumps(_)
JsonDumps(v) ==
    IF v.k = "none" THEN [k |-> "lit", txt |-> NullText]
    ELSE IF v.k = "str"
         THEN [k |-> "lit", txt |-> <<Quote>> \o EscapeStr(v.s) \o <<Quote>>]
         ELSE [k |-> "obj", m |-> [x \in DOMAIN v.m |-> JsonDumps(v.m[x])]]

\* json.loads raises JSONDecodeError
DecodeError == [k |-> "JSONDecodeError"]

NoString == [ok |-> FALSE, s |-> <<>>, rest |-> <<>>]

\* the scanner of a string literal, after its opening quote: the decoded
\* characters up to the first unescaped quote and the text left after it
RECURSIVE ScanString(_)
ScanString(t) ==
    IF t = <<>> THEN NoString
    ELSE IF Head(t) = Quote THEN [ok |-> TRUE, s |-> <<>>, rest |-> Tail(t)]
    ELSE IF Head(t) # Backslash
         THEN LET r == ScanString(Tail(t))
              IN IF r.ok THEN [r EXCEPT !.s = <<Head(t)>> \o r.s] ELSE NoString
    ELSE IF Len(t) < 2 THEN NoString
    ELSE IF t[2] = Quote \/ t[2] = Backslash
         THEN LET r == ScanString(SubSeq(t, 3, Len(t)))
              IN IF r.ok THEN [r EXCEPT !.s = <<t[2]>> \o r.s] ELSE NoString
    ELSE IF t[2] = LetterU /\ Len(t) >= 6
         THEN LET r == ScanString(SubSeq(t, 7, Len(t)))
                  c == HexValue(t[3]) * 4096 + HexValue(t[4]) * 256
                       + HexValue(t[5]) * 16 + HexValue(t[6])
              IN IF r.ok THEN [r EXCEPT !.s = <<c>> \o r.s] ELSE NoString
    ELSE NoString

\* text that is no JSON document
BadText == [k |-> "bad"]

\* the value json.loads reads from a text, or DecodeError
RECURSIVE JsonLoads(_)
JsonLoads(t) ==
    IF t.k = "obj"
    THEN LET m == [x \in DOMAIN t.m |-> JsonLoads(t.m[x])]
         IN IF \E x \in DOMAIN m : m[x] = DecodeError THEN DecodeError
            ELSE Dict(m)
    ELSE IF t.k # "lit" THEN DecodeError
    ELSE IF t.txt = NullText THEN None
    ELSE IF t.txt = <<>> \/ Head(t.txt) # Quote THEN DecodeError
    ELSE LET r == ScanString(Tail(t.txt))
         IN IF r.ok /\ r.rest = <<>> THEN Str(r.s) ELSE DecodeError

(***************************************************************************)
(* The state-store file                                                    *)
(***************************************************************************)
NoFile == [exists |-> FALSE]

File(t) == [exists |-> TRUE, text |-> t]

\* open_db_file raises (the file holds no JSON document)
OpenRaises(f) == f.exists /\ JsonLoads(f.text) = DecodeError

\* open_db_file: {} for a missing file, else the parsed document
open_db_file(f) == IF ~f.exists THEN EmptyDict ELSE JsonLoads(f.text)

\* write_db_file: the file after writing data
write_db_file(data) == File(JsonDumps(data))

\* get_db_last_changed_date
get_db_last_changed_date(f) == DictGet(open_db_file(f), "last_changed_date")

\* the last_changed_date a state-store file holds; None when there is no
\* file, no JSON document in it, or no such key
StoredMarker(f) ==
    IF ~f.exists \/ OpenRaises(f) THEN None ELSE get_db_last_changed_date(f)

(***************************************************************************)
(* Inputs: what the site, the detail page, the clock and the webhook can   *)
(* answer                                                                  *)
(***************************************************************************)
\* datetime attributes of the page's "last updated" element:
\* "", "1", "12", "2" ("12" < "2" only as text)
PageMarkers == { <<>>, <<49>>, <<49, 50>>, <<50>> }

\* datetime.now().isoformat()
NowValues == { <<49>>, <<49, 50>>, <<50>> }

Titles == { None, Str(<<84>>) }

ScreeningDatetimes == { None, Str(<<68>>) }

\* _extract_location always answers: the text after "Plats:" or the default
default_location == <<66, 229>>

Locations == { Str(default_location) }

BookingUrls == { None, Str(<<66>>) }

\* the absolute URL of the detail page
DetailUrl == <<117>>

MovieUrls == { None, Str(DetailUrl) }

Statuses == { 200, 399, 400, 500 }

\* context.new_page raises ("no_page"); page.goto raises, answers no
\* response, or answers a status
NavResults ==
    { [kind |-> "no_page"], [kind |-> "raise"], [kind |-> "none"] }
        \cup { [kind |-> "response", status |-> st] : st \in Statuses }

\* webhook.execute: raises (no connection) or answers a status
ExecuteResults ==
    { [kind |-> "raise"] }
        \cup { [kind |-> "response", status |-> st] : st \in {200, 400} }

(***************************************************************************)
(* State                                                                   *)
(***************************************************************************)
VARIABLES
    dbFile,      \* the state-store file db.json
    pc,          \* where go() stands
    engine,      \* BrowserAutomationEngine: what it holds
    loc,         \* the locals of go()
    exc,         \* the exception in flight: its type, or "none"
    webhook,     \* what the notifier executed on the webhook in this run
    run,         \* the observed course of this run
    prev         \* the observed course of the run before

vars == << dbFile, pc, engine, loc, exc, webhook, run, prev >>

NoEngine ==
    [playwright |-> FALSE, browser |-> FALSE, context |-> FALSE,
     is_initialized |-> FALSE]

NoLocals ==
    [site_last_changed_date |-> None, db_last_changed_date |-> None,
     movie_url |-> None, legacy_data |-> None]

\* handle_consent was not called yet
NotHandled == [handled |-> FALSE, success |-> FALSE, dialog_detected |-> FALSE]

NewRun(f) ==
    [dbAtStart |-> f, branch |-> "none", markerFound |-> FALSE,
     consent |-> NotHandled, movieConsent |-> NotHandled,
     movieNavs |-> 0, extracted |-> FALSE, writes |-> 0,
     failedAt |-> "none", error |-> "none", result |-> "none"]

NoRun == [NewRun(NoFile) EXCEPT !.result = "never"]

\* the screening notifications among the payloads executed on the webhook
Screenings(log) == { i \in 1..Len(log) : log[i].payload.what = "screening" }

\* the error notifications among them
Errors(log) == { i \in 1..Len(log) : log[i].payload.what = "error" }

\* what is kept of a run once the next one starts: the marker it read from
\* the page (None when it found none), whether it extracted a complete
\* record on the changed branch, and how many screening notifications it sent
NoSummary == [ran |-> FALSE, marker |-> None, complete |-> FALSE, screenings |-> 0]

\* state-store files a run can find: none, {} , no JSON, or a record written
\* by an earlier run
StoredRecords ==
    { Dict([last_changed_date |-> Str(m),
            latest_movie_data |->
                Dict([title |-> Str(<<84>>), screening_datetime |-> Str(<<68>>),
                      location |-> Str(default_location),
                      booking_url |-> Str(<<66>>),
                      movie_url |-> Str(DetailUrl)])]) : m \in PageMarkers }

InitFiles ==
    { NoFile, File(JsonDumps(EmptyDict)), File(BadText) }
        \cup { File(JsonDumps(d)) : d \in StoredRecords }

Init ==
    /\ dbFile \in InitFiles
    /\ pc = "idle"
    /\ engine = NoEngine
    /\ loc = NoLocals
    /\ exc = "none"
    /\ webhook = <<>>
    /\ run = NoRun
    /\ prev = NoSummary

(***************************************************************************)
(* BrowserAutomationEngine                                                 *)
(***************************************************************************)
\* cleanup that keeps the browser handle
cleanup_KeepsBrowser(e) == [NoEngine EXCEPT !.browser = e.browser]

\* cleanup: every handle is dropped, on the normal path and on the
\* "force cleanup" path alike
cleanup(e) == NoEngine

\* the resources the engine holds, in the order cleanup visits them
Resources == << "context", "browser", "playwright" >>

HeldResources(e) == { r \in { "context", "browser", "playwright" } : e[r] }

\* cleanup: the resources whose close/stop it invokes, when those of
\* failing would raise; the first that raises ends the try block
RECURSIVE ClosedFrom(_, _, _)
ClosedFrom(e, failing, i) ==
    IF i > Len(Resources) THEN {}
    ELSE IF ~e[Resources[i]] THEN ClosedFrom(e, failing, i + 1)
    ELSE IF Resources[i] \in failing THEN { Resources[i] }
    ELSE { Resources[i] } \cup ClosedFrom(e, failing, i + 1)

cleanup_closes(e, failing) == ClosedFrom(e, failing, 1)

\* the property is_initialized
is_initialized(e) == e.is_initialized /\ e.browser

\* NavigationOk for every response, whatever its status
NavigationOk_AnyResponse(r) == r.kind = "response"

\* the response lets navigate_to_page return the page
NavigationOk(r) == r.kind = "response" /\ r.status < 400

\* initialize_browser: the Playwright driver started or not, the browser
\* launched or not
initialize_browser(e, started, launched) ==
    IF started /\ launched
    THEN [engine |-> [e EXCEPT !.playwright = TRUE, !.browser = TRUE,
                              !.is_initialized = TRUE],
          raises |-> "none"]
    ELSE [engine |-> cleanup([e EXCEPT !.playwright = e.playwright \/ started]),
          raises |-> "RuntimeError"]

\* create_context: browser.new_context answered or raised, and then the
\* context.route of _setup_resource_blocking (block_images and block_fonts
\* are on by default) answered or raised; self.context is assigned between
\* the two
create_context(e, created, routed) ==
    IF ~(e.is_initialized /\ e.browser) \/ ~created
    THEN [engine |-> e, raises |-> "RuntimeError"]
    ELSE [engine |-> [e EXCEPT !.context = TRUE],
          raises |-> IF routed THEN "none" ELSE "RuntimeError"]

\* navigate_to_page: whether it returns a page or raises, and whether it
\* opened a page in the context
navigate_to_page(e, r) ==
    [page |-> e.context /\ NavigationOk(r),
     raises |-> IF e.context /\ NavigationOk(r) THEN "none" ELSE "RuntimeError",
     opened |-> e.context /\ r.kind # "no_page"]

(***************************************************************************)
(* CookieConsentHandler                                                    *)
(***************************************************************************)
CONSENT_SELECTORS ==
    << "#CybotCookiebotDialogBodyLevelButtonLevelOptinAllowAll",
       "#onetrust-accept-btn-handler",
       ".cky-btn-accept",
       "button:has-text('Godkänn alla kakor')",
       "button:has-text('Acceptera alla kakor')",
       "button:has-text('Godkänn alla')",
       "button:has-text('Accept all')",
       "button:has-text('Acceptera alla')",
       "button:has-text('Accept')",
       "button:has-text('Acceptera')",
       "[data-testid*='accept']",
       "[id*='accept']",
       "[class*='accept']",
       "[data-cy*='accept']",
       ".cookie-accept",
       ".consent-accept",
       ".accept-all",
       ".btn-accept" >>

\* how many accept buttons a page carries at most
MaxButtons == 2

\* what a selector finds on the page: no element, or the lookup raises
\* ("missing"); an element that is not visible ("hidden"); a visible element
\* that is disabled; a visible and enabled one whose click goes through
\* ("clickable"); a visible and enabled one whose click raises ("blocked":
\* covered by another element, detached while clicked)
ButtonStates == { "missing", "hidden", "disabled", "clickable", "blocked" }

\* what the dialog selectors find: nothing (a timeout on each, or an error),
\* or a visible dialog
DialogStates == { "absent", "visible" }

\* the sets of at most n selectors
RECURSIVE SelectorSetsUpTo(_)
SelectorSetsUpTo(n) ==
    IF n = 0 THEN { {} }
    ELSE LET fewer == SelectorSetsUpTo(n - 1)
         IN fewer \cup { T \cup {i} : T \in fewer, i \in DOMAIN CONSENT_SELECTORS }

\* the pages handle_consent is given: buttons says what the selectors that
\* find anything find, and these are at most MaxButtons
ConsentPages ==
    { [dialog |-> d, buttons |-> b] :
        d \in DialogStates,
        b \in UNION { [T -> ButtonStates \ {"missing"}] :
                       T \in SelectorSetsUpTo(MaxButtons) } }

\* what the i-th selector finds on the page
ButtonAt(page, i) ==
    IF i \in DOMAIN page.buttons THEN page.buttons[i] ELSE "missing"

\* detect_consent_dialog: a timeout on every selector, or any error, is False
detect_consent_dialog(page) == page.dialog = "visible"

ConsentResult(success, method_used, error_message, dialog_detected) ==
    [success |-> success, method_used |-> method_used,
     error_message |-> error_message, dialog_detected |-> dialog_detected]

\* TryConsentSelectors without the is_enabled test
RECURSIVE TryConsentSelectors_NoEnabledCheck(_, _, _)
TryConsentSelectors_NoEnabledCheck(page, i, clicks) ==
    IF i > Len(CONSENT_SELECTORS)
    THEN [result |-> ConsentResult(FALSE, None,
                        Str("No clickable consent button found"), TRUE),
          clicks |-> clicks]
    ELSE LET selector == CONSENT_SELECTORS[i]
             button == ButtonAt(page, i)
         IN  IF button \in { "missing", "hidden" }
             THEN TryConsentSelectors_NoEnabledCheck(page, i + 1, clicks)
             ELSE IF button = "blocked"
             THEN TryConsentSelectors_NoEnabledCheck(page, i + 1,
                                                     Append(clicks, selector))
             ELSE [result |-> ConsentResult(TRUE, Str(selector), None, TRUE),
                   clicks |-> Append(clicks, selector)]

\* the loop over CONSENT_SELECTORS from the i-th on; clicks are the selectors
\* on which button.click() was called, in order
RECURSIVE TryConsentSelectors(_, _, _)
TryConsentSelectors(page, i, clicks) ==
    IF i > Len(CONSENT_SELECTORS)
    THEN [result |-> ConsentResult(FALSE, None,
                        Str("No clickable consent button found"), TRUE),
          clicks |-> clicks]
    ELSE LET selector == CONSENT_SELECTORS[i]
             button == ButtonAt(page, i)
         IN  IF button \in { "missing", "hidden", "disabled" }
             THEN TryConsentSelectors(page, i + 1, clicks)
             ELSE IF button = "blocked"
             THEN TryConsentSelectors(page, i + 1, Append(clicks, selector))
             ELSE [result |-> ConsentResult(TRUE, Str(selector), None, TRUE),
                   clicks |-> Append(clicks, selector)]

\* handle_consent going to the buttons without detecting a dialog
handle_consent_NoDetection(page) == TryConsentSelectors(page, 1, <<>>)

\* handle_consent(page): its ConsentResult and the clicks it made
handle_consent(page) ==
    IF ~detect_consent_dialog(page)
    THEN [result |-> ConsentResult(TRUE, Str("no_dialog_detected"), None, FALSE),
          clicks |-> <<>>]
    ELSE TryConsentSelectors(page, 1, <<>>)

\* what go() logs of a ConsentResult
ConsentSummary(r) ==
    [handled |-> TRUE, success |-> r.success, dialog_detected |-> r.dialog_detected]

\* what go() can get back from handle_consent
ConsentSummaries ==
    { ConsentSummary(handle_consent(p).result) : p \in ConsentPages }

(***************************************************************************)
(* ContentExtractor                                                        *)
(***************************************************************************)
Space == 32
Newline == 10
LeftParen == 40
RightParen == 41

\* whitespace, for str.strip() and for \s
IsSpace(c) == c \in { Space, Newline }

\* \d
IsDigit(c) == c \in 48..57

Least(S) == CHOOSE i \in S : \A j \in S : i <= j

Greatest(S) == CHOOSE i \in S : \A j \in S : j <= i

\* s.strip()
Strip(s) ==
    LET kept == { i \in 1..Len(s) : ~IsSpace(s[i]) }
    IN  IF kept = {} THEN << >> ELSE SubSeq(s, Least(kept), Greatest(kept))

\* the positions at which sub occurs in s
Occurrences(s, sub) ==
    { i \in 1..(Len(s) - Len(sub) + 1) : SubSeq(s, i, i + Len(sub) - 1) = sub }

\* 'Throwback Thursday:'
Label == << 84, 104, 114, 111, 119, 98, 97, 99, 107, 32, 84, 104, 117, 114, 115, 100, 97, 121, 58 >>

NoMatch == [matched |-> FALSE, group |-> << >>]

\* re.search(r'"(.*?)"', s): the leftmost quote that has a quote after it on
\* the same line, and the text up to the nearest such quote
quote_match(s) ==
    LET closing(i) == { j \in (i + 1)..Len(s) : s[j] = Quote }
        opening == { i \in 1..Len(s) :
                       /\ s[i] = Quote
                       /\ closing(i) # {}
                       /\ \A k \in (i + 1)..(Least(closing(i)) - 1) : s[k] # Newline }
    IN  IF opening = {} THEN NoMatch
        ELSE LET i == Least(opening)
             IN  [matched |-> TRUE, group |-> SubSeq(s, i + 1, Least(closing(i)) - 1)]

\* \(\d{4}\) at position q of s
YearAt(s, q) ==
    /\ q + 5 <= Len(s)
    /\ s[q] = LeftParen
    /\ \A d \in 1..4 : IsDigit(s[q + d])
    /\ s[q + 5] = RightParen

\* \s*\(\d{4}\) from position q of s: where the year stands, if it matches
SpacesThenYear(s, q) ==
    { m \in q..Len(s) : YearAt(s, m) /\ \A x \in q..(m - 1) : IsSpace(s[x]) }

\* re.search(r'Throwback Thursday:\s*(.+?)\s*\(\d{4}\)', s): the leftmost
\* label with a match; after it \s* takes as much as it can, (.+?) as
\* little as it can, and no newline
throwback_match(s) ==
    LET starts(a) == { st \in a..(Len(s) + 1) : \A x \in a..(st - 1) : IsSpace(s[x]) }
        ends(st) == { e \in st..Len(s) :
                        /\ \A x \in st..e : s[x] # Newline
                        /\ SpacesThenYear(s, e + 1) # {} }
        matching(i) == { st \in starts(i + Len(Label)) : ends(st) # {} }
        labels == { i \in Occurrences(s, Label) : matching(i) # {} }
    IN  IF labels = {} THEN NoMatch
        ELSE LET st == Greatest(matching(Least(labels)))
             IN  [matched |-> TRUE, group |-> SubSeq(s, st, Least(ends(st)))]

\* re.sub(r'\s*\(\d{4}\)\s*', '', s)
RECURSIVE RemoveYears(_)
RemoveYears(s) ==
    LET starts == { i \in 1..Len(s) : SpacesThenYear(s, i) # {} }
    IN  IF starts = {} THEN s
        ELSE LET i == Least(starts)
                 m == Least(SpacesThenYear(s, i))
                 rest == Least({ x \in (m + 6)..(Len(s) + 1) :
                                   x = Len(s) + 1 \/ ~IsSpace(s[x]) })
             IN  SubSeq(s, 1, i - 1) \o RemoveYears(SubSeq(s, rest, Len(s)))

\* _clean_movie_title looking for the label before it looks for quotes
clean_movie_title_LabelFirst(raw_title) ==
    IF raw_title = << >> THEN None
    ELSE IF throwback_match(raw_title).matched
    THEN Str(Strip(throwback_match(raw_title).group))
    ELSE IF quote_match(raw_title).matched
    THEN Str(quote_match(raw_title).group)
    ELSE IF Occurrences(raw_title, Label) # {}
    THEN LET after == Least(Occurrences(raw_title, Label)) + Len(Label)
         IN  Str(Strip(RemoveYears(Strip(SubSeq(raw_title, after, Len(raw_title))))))
    ELSE Str(Strip(raw_title))

\* _clean_movie_title
clean_movie_title(raw_title) ==
    IF raw_title = << >> THEN None
    ELSE IF quote_match(raw_title).matched
    THEN Str(quote_match(raw_title).group)
    ELSE IF throwback_match(raw_title).matched
    THEN Str(Strip(throwback_match(raw_title).group))
    ELSE IF Occurrences(raw_title, Label) # {}
    THEN LET after == Least(Occurrences(raw_title, Label)) + Len(Label)
         IN  Str(Strip(RemoveYears(Strip(SubSeq(raw_title, after, Len(raw_title))))))
    ELSE Str(Strip(raw_title))

\* s.startswith(prefix)
StartsWith(s, prefix) ==
    /\ Len(prefix) <= Len(s)
    /\ \A i \in 1..Len(prefix) : s[i] = prefix[i]

\* 'http'
Http == << 104, 116, 116, 112 >>

\* the MovieData fields validate_extracted_data and go() look at
MovieData(title, screening_datetime, location, booking_url, movie_url) ==
    [title |-> title, screening_datetime |-> screening_datetime,
     location |-> location, booking_url |-> booking_url, movie_url |-> movie_url]

required_fields == << "title", "screening_datetime", "location", "booking_url" >>

\* the loop over required_fields from the i-th on
RECURSIVE CheckRequiredFields(_, _, _)
CheckRequiredFields(data, i, validation_result) ==
    IF i > Len(required_fields) THEN validation_result
    ELSE IF ~Truthy(data[required_fields[i]])
    THEN CheckRequiredFields(data, i + 1,
             [validation_result EXCEPT
                 !.missing_fields = Append(@, required_fields[i]),
                 !.is_valid = FALSE])
    ELSE CheckRequiredFields(data, i + 1, validation_result)

\* the two data quality checks, which only add warnings
CheckDataQuality(data, validation_result) ==
    LET short == Truthy(data.title) /\ Len(data.title.s) < 2
        malformed == Truthy(data.booking_url) /\ ~StartsWith(data.booking_url.s, Http)
        w1 == IF short THEN << "Title seems too short" >> ELSE << >>
        w2 == IF malformed THEN << "Booking URL may be malformed" >> ELSE << >>
    IN  [validation_result EXCEPT !.warnings = @ \o w1 \o w2]

\* validate_extracted_data whose warnings make the record invalid
validate_extracted_data_WarningsInvalidate(data) ==
    LET r == CheckDataQuality(data,
                 CheckRequiredFields(data, 1,
                     [is_valid |-> TRUE, missing_fields |-> << >>, warnings |-> << >>]))
    IN  [r EXCEPT !.is_valid = @ /\ r.warnings = << >>]

validate_extracted_data(data) ==
    CheckDataQuality(data,
        CheckRequiredFields(data, 1,
            [is_valid |-> TRUE, missing_fields |-> << >>, warnings |-> << >>]))

Hyphen == 45
Dot == 46
Colon == 58
Zero == 48

\* s.zfill(width)
RECURSIVE Zfill(_, _)
Zfill(s, width) == IF Len(s) >= width THEN s ELSE Zfill(<<Zero>> \o s, width)

\* str(n) of an int n >= 0
RECURSIVE IntStr(_)
IntStr(n) == IF n < 10 THEN << Zero + n >> ELSE IntStr(n \div 10) \o << Zero + (n % 10) >>

\* text.lower(), on the letters A to Z
Lower(s) == [ i \in 1..Len(s) |-> IF s[i] \in 65..90 THEN s[i] + 32 ELSE s[i] ]

\* \d{4}-\d{2}-\d{2} at position i of s
DateAt(s, i) ==
    /\ i + 9 <= Len(s)
    /\ \A k \in { 0, 1, 2, 3, 5, 6, 8, 9 } : IsDigit(s[i + k])
    /\ s[i + 4] = Hyphen
    /\ s[i + 7] = Hyphen

\* (\d{1,2})\.(\d{2}) at position j of s: the lengths the hour can have, two
\* digits tried before one
HourAt(s, j) ==
    { h \in { 1, 2 } :
        /\ j + h + 2 <= Len(s)
        /\ \A k \in 0..(h - 1) : IsDigit(s[j + k])
        /\ s[j + h] = Dot
        /\ IsDigit(s[j + h + 1])
        /\ IsDigit(s[j + h + 2]) }

\* \s+ from position j of s: where it ends when it takes all it can, j when
\* there is no whitespace at j
AfterSpaces(s, j) ==
    Least({ x \in j..(Len(s) + 1) : x = Len(s) + 1 \/ ~IsSpace(s[x]) })

\* re.search(iso_time_pattern, text): the leftmost date that whitespace and
\* a time follow; groups date_part, hour, minute
iso_time_match(text) ==
    LET starts == { i \in 1..Len(text) :
                      /\ DateAt(text, i)
                      /\ AfterSpaces(text, i + 10) > i + 10
                      /\ HourAt(text, AfterSpaces(text, i + 10)) # {} }
    IN  IF starts = {} THEN NoMatch
        ELSE LET i == Least(starts)
                 j == AfterSpaces(text, i + 10)
                 h == Greatest(HourAt(text, j))
             IN  [matched |-> TRUE,
                  groups |-> << SubSeq(text, i, i + 9), SubSeq(text, j, j + h - 1),
                                SubSeq(text, j + h + 1, j + h + 2) >>]

\* the keys of month_map, in the order of its values '01' to '12'
month_names ==
    << << 106, 97, 110, 117, 97, 114, 105 >>,
       << 102, 101, 98, 114, 117, 97, 114, 105 >>,
       << 109, 97, 114, 115 >>,
       << 97, 112, 114, 105, 108 >>,
       << 109, 97, 106 >>,
       << 106, 117, 110, 105 >>,
       << 106, 117, 108, 105 >>,
       << 97, 117, 103, 117, 115, 116, 105 >>,
       << 115, 101, 112, 116, 101, 109, 98, 101, 114 >>,
       << 111, 107, 116, 111, 98, 101, 114 >>,
       << 110, 111, 118, 101, 109, 98, 101, 114 >>,
       << 100, 101, 99, 101, 109, 98, 101, 114 >> >>

\* re.search(swedish_pattern, text.lower()): the leftmost day (one or two
\* digits) that whitespace, a month name, whitespace and a time follow;
\* groups day, month_name, hour, minute
swedish_match(text) ==
    LET s == Lower(text)
        month(p) == { m \in 1..Len(month_names) :
                        /\ p + Len(month_names[m]) - 1 <= Len(s)
                        /\ SubSeq(s, p, p + Len(month_names[m]) - 1) = month_names[m] }
        time(p, m) == AfterSpaces(s, p + Len(month_names[m]))
        days(i) == { d \in { 1, 2 } :
                       /\ i + d <= Len(s)
                       /\ \A k \in 0..(d - 1) : IsDigit(s[i + k])
                       /\ AfterSpaces(s, i + d) > i + d
                       /\ \E m \in month(AfterSpaces(s, i + d)) :
                             /\ time(AfterSpaces(s, i + d), m) >
                                   AfterSpaces(s, i + d) + Len(month_names[m])
                             /\ HourAt(s, time(AfterSpaces(s, i + d), m)) # {} }
        starts == { i \in 1..Len(s) : days(i) # {} }
    IN  IF starts = {} THEN NoMatch
        ELSE LET i == Least(starts)
                 d == Greatest(days(i))
                 p == AfterSpaces(s, i + d)
                 m == Least({ x \in month(p) : HourAt(s, time(p, x)) # {} })
                 j == time(p, m)
                 h == Greatest(HourAt(s, j))
             IN  [matched |-> TRUE,
                  groups |-> << SubSeq(s, i, i + d - 1), m, SubSeq(s, j, j + h - 1),
                                SubSeq(s, j + h + 1, j + h + 2) >>]

\* _extract_datetime_from_text trying the Swedish pattern before the other
extract_datetime_from_text_SwedishFirst(text, year) ==
    IF text = << >> THEN None
    ELSE LET g == swedish_match(text)
         IN  IF g.matched
             THEN Str(IntStr(year) \o <<Hyphen>>
                      \o Zfill(Zfill(IntStr(g.groups[2]), 2), 2) \o <<Hyphen>>
                      \o Zfill(g.groups[1], 2) \o <<Space>>
                      \o Zfill(g.groups[3], 2) \o <<Colon>> \o g.groups[4])
             ELSE LET match == iso_time_match(text)
                  IN  IF match.matched
                      THEN Str(match.groups[1] \o <<Space>> \o Zfill(match.groups[2], 2)
                               \o <<Colon>> \o match.groups[3])
                      ELSE None

\* _extract_datetime_from_text, when datetime.now().year is year; the month
\* is month_map[month_name], the number of the name in two digits
extract_datetime_from_text(text, year) ==
    IF text = << >> THEN None
    ELSE LET match == iso_time_match(text)
         IN  IF match.matched
             THEN Str(match.groups[1] \o <<Space>> \o Zfill(match.groups[2], 2)
                      \o <<Colon>> \o match.groups[3])
             ELSE LET g == swedish_match(text)
                  IN  IF g.matched
                      THEN Str(IntStr(year) \o <<Hyphen>>
                               \o Zfill(Zfill(IntStr(g.groups[2]), 2), 2) \o <<Hyphen>>
                               \o Zfill(g.groups[1], 2) \o <<Space>>
                               \o Zfill(g.groups[3], 2) \o <<Colon>> \o g.groups[4])
                      ELSE None

\* dt.strftime('%Y-%m-%d %H:%M'); %Y writes the year as it is, four digits
\* from the year 1000 on
strftime(dt) ==
    IntStr(dt.year) \o <<Hyphen>> \o Zfill(IntStr(dt.month), 2) \o <<Hyphen>>
        \o Zfill(IntStr(dt.day), 2) \o <<Space>> \o Zfill(IntStr(dt.hour), 2)
        \o <<Colon>> \o Zfill(IntStr(dt.minute), 2)

\* ExtractionConfig.title_selectors
title_selectors ==
    << "h1", ".sidrubrik", "[class*=\"title\"]", "[class*=\"heading\"]" >>

\* ExtractionConfig.booking_url_selectors
booking_url_selectors ==
    << "a:contains(\"KÃ¶p biljett\")", "a:contains(\"Book\")",
       "[class*=\"booking\"]", "[href*=\"bio.se\"]" >>

\* what an extraction strategy ends with: the value it returns, the exception
\* that leaves it, and how many strategies of the field were entered
Extracted(value, raises, attempted) ==
    [value |-> value, raises |-> raises, attempted |-> attempted]

\* the body of the loop of _extract_movie_title for one selector, given what
\* the page answers to it: no element within the timeout, an error, or an
\* element and its text_content(); None where the loop goes on
TitleFrom(r) ==
    IF r.kind = "text" /\ r.text # << >>
    THEN LET title == clean_movie_title(Strip(r.text))
         IN  IF Truthy(title) THEN title ELSE None
    ELSE None

\* _extract_movie_title: its loop from the i-th selector on
RECURSIVE TryTitleSelectors(_, _)
TryTitleSelectors(responses, i) ==
    IF i > Len(title_selectors) THEN Extracted(None, "none", i - 1)
    ELSE IF TitleFrom(responses[i]) # None
    THEN Extracted(TitleFrom(responses[i]), "none", i)
    ELSE TryTitleSelectors(responses, i + 1)

\* the loop over tid_elements from the i-th on: an error of the page leaves
\* the loop for the except clause
RECURSIVE TryTidElements(_, _)
TryTidElements(elements, i) ==
    IF i > Len(elements) THEN None
    ELSE IF elements[i].kind = "error" THEN None
    ELSE IF elements[i].kind = "text" THEN Str(elements[i].datetime_text)
    ELSE TryTidElements(elements, i + 1)

\* the second strategy of _extract_screening_datetime: the elements with
\* the text "Tid:"
TidDatetime(r) ==
    IF r.kind = "error" THEN None ELSE TryTidElements(r.elements, 1)

\* _extract_screening_datetime: the first strategy catches the timeout of
\* wait_for_selector and the ValueError of fromisoformat, and nothing else;
\* the third one reads the content of the page
extract_screening_datetime(page) ==
    IF page.time_element.kind = "error" THEN Extracted(None, "Error", 1)
    ELSE IF page.time_element.kind = "formatted"
    THEN Extracted(Str(page.time_element.formatted_time), "none", 1)
    ELSE IF TidDatetime(page.tid) # None
    THEN Extracted(TidDatetime(page.tid), "none", 2)
    ELSE IF page.content.kind = "text"
    THEN Extracted(Str(page.content.datetime_text), "none", 3)
    ELSE Extracted(None, "none", 3)

\* _extract_location
extract_location(r) ==
    IF r.kind = "text" THEN Extracted(Str(r.location), "none", 1)
    ELSE Extracted(Str(default_location), "none", 1)

Slash == 47

\* s.split('/')
RECURSIVE Split(_)
Split(s) ==
    IF Occurrences(s, <<Slash>>) = {} THEN << s >>
    ELSE LET i == Least(Occurrences(s, <<Slash>>))
         IN  << SubSeq(s, 1, i - 1) >> \o Split(SubSeq(s, i + 1, Len(s)))

\* '/'.join(parts)
RECURSIVE Join(_)
Join(parts) ==
    IF Len(parts) = 0 THEN << >>
    ELSE IF Len(parts) = 1 THEN parts[1]
    ELSE parts[1] \o <<Slash>> \o Join(Tail(parts))

\* the body of the loop of _extract_booking_url for one selector on the page
\* at url; None where the loop goes on: no element, no href, an error of the
\* page, or the IndexError of split('/')[2]
BookingFrom(url, r) ==
    IF r.kind # "href" \/ r.href = << >> THEN None
    ELSE IF StartsWith(r.href, <<Slash>>)
    THEN IF Len(Split(url)) < 3 THEN None
         ELSE Str(Split(url)[1] \o <<Slash, Slash>> \o Split(url)[3] \o r.href)
    ELSE IF ~StartsWith(r.href, Http)
    THEN Str(Join(SubSeq(Split(url), 1, Len(Split(url)) - 1)) \o <<Slash>> \o r.href)
    ELSE Str(r.href)

\* _extract_booking_url: its loop from the i-th selector on
RECURSIVE TryBookingSelectors(_, _, _)
TryBookingSelectors(url, responses, i) ==
    IF i > Len(booking_url_selectors) THEN Extracted(None, "none", i - 1)
    ELSE IF BookingFrom(url, responses[i]) # None
    THEN Extracted(BookingFrom(url, responses[i]), "none", i)
    ELSE TryBookingSelectors(url, responses, i + 1)

(***************************************************************************)
(* DiscordNotifier                                                         *)
(***************************************************************************)
\* the methods class DiscordNotifier defines
NotifierMethods == { "__init__", "send_message" }

\* send_message(x): webhook.add_embed(x), webhook.execute()
send_message(log, x, r) == Append(log, [payload |-> x, result |-> r])

\* the error text of the except clause of go()
error_msg(type) == [what |-> "error", form |-> "str", type |-> type]

\* generate_embed
generate_embed(title, screening_datetime, location, movie_url, booking_url) ==
    [what |-> "screening", form |-> "embed", title |-> title,
     when |-> screening_datetime, where |-> location, details |-> movie_url,
     book |-> booking_url]

(***************************************************************************)
(* BrowserWebChecker.go                                                    *)
(***************************************************************************)
\* ShouldExtract without the test for a missing stored marker
ShouldExtract_NoNoneCheck(site, db) ==
    IF db = None THEN FALSE ELSE Truthy(site) /\ StrLess(db.s, site.s)

\* ShouldExtract for any page marker that differs from the stored one
ShouldExtract_WhenDifferent(site, db) ==
    IF db = None THEN TRUE ELSE Truthy(site) /\ site # db

\* the condition of the "site has changed" branch
ShouldExtract(site, db) ==
    IF db = None THEN TRUE ELSE Truthy(site) /\ StrLess(db.s, site.s)

RequiredFields == { "title", "screening_datetime", "location", "booking_url" }

\* all(legacy_data.get(field) for field in [...])
Complete(data) == \A f \in RequiredFields : Truthy(DictGet(data, f))

\* _convert_to_legacy_format of the MovieData extract_movie_data returns
\* for the page at url
legacy_format(title, when, location, booking, url) ==
    Dict([title |-> title, screening_datetime |-> when, location |-> location,
          booking_url |-> booking, movie_url |-> url])

PageMarkerOf(r, l) ==
    IF r.markerFound THEN l.site_last_changed_date ELSE None

Summary(r, l, log) ==
    [ran |-> r.result # "never",
     marker |-> PageMarkerOf(r, l),
     complete |-> r.extracted /\ Complete(l.legacy_data),
     screenings |-> Cardinality(Screenings(log))]

\* an exception of type t raised at the step go() stands at
Raise(t) ==
    /\ exc' = t
    /\ run' = [run EXCEPT !.failedAt = pc, !.error = t]
    /\ pc' = "except"

StartRun ==
    /\ pc = "idle"
    /\ pc' = "initialize_browser"
    /\ prev' = Summary(run, loc, webhook)
    /\ run' = NewRun(dbFile)
    /\ loc' = NoLocals
    /\ webhook' = <<>>
    /\ exc' = "none"
    /\ UNCHANGED << dbFile, engine >>

InitializeBrowser ==
    /\ pc = "initialize_browser"
    /\ \E started \in BOOLEAN, launched \in BOOLEAN :
          LET r == initialize_browser(engine, started, launched)
          IN  /\ engine' = r.engine
              /\ IF r.raises = "none"
                 THEN /\ pc' = "create_context"
                      /\ UNCHANGED << exc, run >>
                 ELSE Raise(r.raises)
    /\ UNCHANGED << dbFile, loc, webhook, prev >>

CreateContext ==
    /\ pc = "create_context"
    /\ \E created \in BOOLEAN, routed \in BOOLEAN :
          LET r == create_context(engine, created, routed)
          IN  /\ engine' = r.engine
              /\ IF r.raises = "none"
                 THEN /\ pc' = "navigate_to_page"
                      /\ UNCHANGED << exc, run >>
                 ELSE Raise(r.raises)
    /\ UNCHANGED << dbFile, loc, webhook, prev >>

NavigateToPage ==
    /\ pc = "navigate_to_page"
    /\ \E r \in NavResults :
          IF navigate_to_page(engine, r).page
          THEN /\ pc' = "handle_consent"
               /\ UNCHANGED << exc, run >>
          ELSE Raise(navigate_to_page(engine, r).raises)
    /\ UNCHANGED << dbFile, engine, loc, webhook, prev >>

\* HandleConsent raising when no accept button could be clicked
HandleConsent_FailureAborts ==
    /\ pc = "handle_consent"
    /\ \E c \in ConsentSummaries :
          IF c.success
          THEN /\ run' = [run EXCEPT !.consent = c]
               /\ pc' = "site_last_changed_date"
               /\ UNCHANGED exc
          ELSE /\ run' = [run EXCEPT !.consent = c, !.failedAt = pc,
                                     !.error = "RuntimeError"]
               /\ exc' = "RuntimeError"
               /\ pc' = "except"
    /\ UNCHANGED << dbFile, engine, loc, webhook, prev >>

\* consent_result = await handle_consent(page), only logged; then
\* wait_for_content_load, which catches whatever the page raises
HandleConsent ==
    /\ pc = "handle_consent"
    /\ \E c \in ConsentSummaries : run' = [run EXCEPT !.consent = c]
    /\ pc' = "site_last_changed_date"
    /\ UNCHANGED << dbFile, engine, loc, exc, webhook, prev >>

\* _get_site_last_changed_date returning None where it finds no marker
GetSiteLastChangedDate_NoFallback ==
    /\ pc = "site_last_changed_date"
    /\ \/ \E m \in { Str(x) : x \in PageMarkers } \cup { None } :
             /\ loc' = [loc EXCEPT !.site_last_changed_date = m]
             /\ run' = [run EXCEPT !.markerFound = TRUE]
       \/ /\ loc' = [loc EXCEPT !.site_last_changed_date = None]
          /\ UNCHANGED run
    /\ pc' = "db_last_changed_date"
    /\ UNCHANGED << dbFile, engine, exc, webhook, prev >>

\* _get_site_last_changed_date: the datetime attribute of the element, or
\* datetime.now().isoformat() where the element is not found
GetSiteLastChangedDate ==
    /\ pc = "site_last_changed_date"
    /\ \/ \E m \in { Str(x) : x \in PageMarkers } \cup { None } :
             /\ loc' = [loc EXCEPT !.site_last_changed_date = m]
             /\ run' = [run EXCEPT !.markerFound = TRUE]
       \/ \E now \in NowValues :
             /\ loc' = [loc EXCEPT !.site_last_changed_date = Str(now)]
             /\ UNCHANGED run
    /\ pc' = "db_last_changed_date"
    /\ UNCHANGED << dbFile, engine, exc, webhook, prev >>

GetDbLastChangedDate ==
    /\ pc = "db_last_changed_date"
    /\ IF OpenRaises(dbFile)
       THEN /\ Raise("JSONDecodeError")
            /\ UNCHANGED loc
       ELSE /\ loc' = [loc EXCEPT !.db_last_changed_date =
                                      get_db_last_changed_date(dbFile)]
            /\ pc' = "compare"
            /\ UNCHANGED << exc, run >>
    /\ UNCHANGED << dbFile, engine, webhook, prev >>

SiteHasChanged ==
    /\ pc = "compare"
    /\ ShouldExtract(loc.site_last_changed_date, loc.db_last_changed_date)
    /\ run' = [run EXCEPT !.branch = "changed"]
    /\ pc' = "movie_url"
    /\ UNCHANGED << dbFile, engine, loc, exc, webhook, prev >>

\* SiteHasNotChanged falling through into the changed branch
SiteHasNotChanged_FallsThrough ==
    /\ pc = "compare"
    /\ ~ShouldExtract(loc.site_last_changed_date, loc.db_last_changed_date)
    /\ run' = [run EXCEPT !.branch = "unchanged"]
    /\ pc' = "movie_url"
    /\ UNCHANGED << dbFile, engine, loc, exc, webhook, prev >>

SiteHasNotChanged ==
    /\ pc = "compare"
    /\ ~ShouldExtract(loc.site_last_changed_date, loc.db_last_changed_date)
    /\ run' = [run EXCEPT !.branch = "unchanged"]
    /\ pc' = "finally"
    /\ UNCHANGED << dbFile, engine, loc, exc, webhook, prev >>

GetMovieUrl ==
    /\ pc = "movie_url"
    /\ \E u \in MovieUrls :
          /\ loc' = [loc EXCEPT !.movie_url = u]
          /\ pc' = IF Truthy(u) THEN "navigate_to_movie" ELSE "finally"
    /\ UNCHANGED << dbFile, engine, exc, webhook, run, prev >>

\* navigate_to_page(movie_url), then handle_consent and
\* wait_for_content_load on the detail page
NavigateToMovie ==
    /\ pc = "navigate_to_movie"
    /\ \E r \in NavResults, c \in ConsentSummaries :
          IF navigate_to_page(engine, r).page
          THEN /\ pc' = "extract_movie_data"
               /\ run' = [run EXCEPT !.movieNavs = 1, !.movieConsent = c]
               /\ UNCHANGED exc
          ELSE Raise(navigate_to_page(engine, r).raises)
    /\ UNCHANGED << dbFile, engine, loc, webhook, prev >>

\* extract_movie_data: the first datetime strategy lets every error but a
\* timeout escape
ExtractMovieData ==
    /\ pc = "extract_movie_data"
    /\ \/ \E t \in Titles, w \in ScreeningDatetimes, l \in Locations,
             b \in BookingUrls :
             /\ loc' = [loc EXCEPT !.legacy_data =
                                      legacy_format(t, w, l, b, loc.movie_url)]
             /\ run' = [run EXCEPT !.extracted = TRUE]
             /\ pc' = "update_db"
             /\ UNCHANGED exc
       \/ /\ Raise("Error")
          /\ UNCHANGED loc
    /\ UNCHANGED << dbFile, engine, webhook, prev >>

\* the record go() writes
NewRecord(f, site, data) ==
    DictSet(DictSet(open_db_file(f), "last_changed_date", site),
            "latest_movie_data", data)

\* UpdateDb behind the completeness test of the notification
UpdateDb_OnlyWhenComplete ==
    /\ pc = "update_db"
    /\ IF Complete(loc.legacy_data)
       THEN /\ dbFile' = write_db_file(
                   NewRecord(dbFile, loc.site_last_changed_date, loc.legacy_data))
            /\ run' = [run EXCEPT !.writes = @ + 1]
       ELSE UNCHANGED << dbFile, run >>
    /\ pc' = "notify"
    /\ UNCHANGED << engine, loc, exc, webhook, prev >>

\* UpdateDb running a second time before the notification
UpdateDb_WritesAgain ==
    /\ pc = "update_db"
    /\ dbFile' = write_db_file(
                    NewRecord(dbFile, loc.site_last_changed_date, loc.legacy_data))
    /\ run' = [run EXCEPT !.writes = @ + 1]
    /\ pc' = IF run.writes = 0 THEN "update_db" ELSE "notify"
    /\ UNCHANGED << engine, loc, exc, webhook, prev >>

UpdateDb ==
    /\ pc = "update_db"
    /\ dbFile' = write_db_file(
                    NewRecord(dbFile, loc.site_last_changed_date, loc.legacy_data))
    /\ run' = [run EXCEPT !.writes = @ + 1]
    /\ pc' = "notify"
    /\ UNCHANGED << engine, loc, exc, webhook, prev >>

\* self.notifier.send_embed(embed): DiscordNotifier has no such method
Notify ==
    /\ pc = "notify"
    /\ IF Complete(loc.legacy_data)
       THEN IF "send_embed" \in NotifierMethods
            THEN /\ \E r \in ExecuteResults :
                       /\ webhook' = send_message(webhook,
                              generate_embed(loc.legacy_data.m.title,
                                  loc.legacy_data.m.screening_datetime,
                                  loc.legacy_data.m.location,
                                  loc.legacy_data.m.movie_url,
                                  loc.legacy_data.m.booking_url), r)
                       /\ IF r.kind = "raise"
                          THEN Raise("ConnectionError")
                          ELSE /\ pc' = "finally"
                               /\ UNCHANGED << exc, run >>
            ELSE /\ Raise("AttributeError")
                 /\ UNCHANGED webhook
       ELSE /\ pc' = "finally"
            /\ UNCHANGED << exc, run, webhook >>
    /\ UNCHANGED << dbFile, engine, loc, prev >>

\* Except that only logs the error
Except_LogOnly ==
    /\ pc = "except"
    /\ exc' = "none"
    /\ pc' = "finally"
    /\ UNCHANGED << dbFile, engine, loc, webhook, run, prev >>

\* except Exception as e: self.notifier.send_message(error_msg)
Except ==
    /\ pc = "except"
    /\ \E r \in ExecuteResults :
          /\ webhook' = send_message(webhook, error_msg(exc), r)
          /\ exc' = IF r.kind = "raise" THEN "ConnectionError" ELSE "none"
    /\ pc' = "finally"
    /\ UNCHANGED << dbFile, engine, loc, run, prev >>

\* a finally clause that cleans up only when an exception is in flight
Finally_CleanupOnError ==
    /\ pc = "finally"
    /\ engine' = IF exc = "none" THEN engine ELSE cleanup(engine)
    /\ run' = [run EXCEPT !.result = IF exc = "none" THEN "returned" ELSE "raised"]
    /\ pc' = "idle"
    /\ UNCHANGED << dbFile, loc, exc, webhook, prev >>

\* finally: await self.browser_engine.cleanup(); then go() returns, or the
\* exception in flight leaves it
Finally ==
    /\ pc = "finally"
    /\ engine' = cleanup(engine)
    /\ run' = [run EXCEPT !.result = IF exc = "none" THEN "returned" ELSE "raised"]
    /\ pc' = "idle"
    /\ UNCHANGED << dbFile, loc, exc, webhook, prev >>

Next ==
    \/ StartRun
    \/ InitializeBrowser
    \/ CreateContext
    \/ NavigateToPage
    \/ HandleConsent
    \/ GetSiteLastChangedDate
    \/ GetDbLastChangedDate
    \/ SiteHasChanged
    \/ SiteHasNotChanged
    \/ GetMovieUrl
    \/ NavigateToMovie
    \/ ExtractMovieData
    \/ UpdateDb
    \/ Notify
    \/ Except
    \/ Finally

Spec == Init /\ [][Next]_vars

(***************************************************************************)
(* BrowserWebChecker.go run after run, where what is kept of the earlier   *)
(* runs is the newest marker any of them read from the page                *)
(***************************************************************************)
\* the greater, as text, of two page markers; None and "" are no markers
Newest(a, b) ==
    IF ~Truthy(b) THEN a
    ELSE IF ~Truthy(a) THEN b
    ELSE IF StrLess(a.s, b.s) THEN b ELSE a

\* a marker found in the state store at the start was read from the page
\* by the run that wrote it
InitRuns ==
    /\ dbFile \in InitFiles
    /\ pc = "idle"
    /\ engine = NoEngine
    /\ loc = NoLocals
    /\ exc = "none"
    /\ webhook = <<>>
    /\ run = NoRun
    /\ prev = Newest(None, StoredMarker(dbFile))

StartRunAfter ==
    /\ pc = "idle"
    /\ pc' = "initialize_browser"
    /\ prev' = Newest(prev, PageMarkerOf(run, loc))
    /\ run' = NewRun(dbFile)
    /\ loc' = NoLocals
    /\ webhook' = <<>>
    /\ exc' = "none"
    /\ UNCHANGED << dbFile, engine >>

NextRuns ==
    \/ StartRunAfter
    \/ InitializeBrowser
    \/ CreateContext
    \/ NavigateToPage
    \/ HandleConsent
    \/ GetSiteLastChangedDate
    \/ GetDbLastChangedDate
    \/ SiteHasChanged
    \/ SiteHasNotChanged
    \/ GetMovieUrl
    \/ NavigateToMovie
    \/ ExtractMovieData
    \/ UpdateDb
    \/ Notify
    \/ Except
    \/ Finally

SpecRuns == InitRuns /\ [][NextRuns]_vars

(***************************************************************************)
(* WebChecker.go: the first generation (src/src/checker.py).  It has no    *)
(* try/except: whatever a step raises leaves go().                         *)
(***************************************************************************)
\* get_site_last_changed_date answers None when the element is missing
LegacySiteMarkers == { Str(x) : x \in PageMarkers } \cup { None }

\* get_screening_location answers None when "Plats:" is missing
LegacyLocations == { None, Str(default_location) }

\* download_html: session.get raises, or raise_for_status sees the status
DownloadOk(r) == r.kind = "response" /\ r.status < 400

\* the comparison site_last_changed_date > db_last_changed_date raises
\* TypeError when the site marker is None
LegacyCompareRaises(site, db) == db # None /\ site = None

\* if db_last_changed_date is None or site_last_changed_date > db_last_changed_date
LegacyShouldExtract(site, db) ==
    IF db = None THEN TRUE ELSE StrLess(db.s, site.s)

\* the message of line 180
legacy_message(title, screening_datetime, location, movie_url, booking_url) ==
    [what |-> "screening", form |-> "str", title |-> title,
     when |-> screening_datetime, where |-> location, details |-> movie_url,
     book |-> booking_url]

\* an exception of type t leaves go()
LegacyRaise(t) ==
    /\ exc' = t
    /\ run' = [run EXCEPT !.failedAt = pc, !.error = t, !.result = "raised"]
    /\ pc' = "idle"

LegacyStart ==
    /\ pc = "idle"
    /\ pc' = "download_html"
    /\ prev' = Summary(run, loc, webhook)
    /\ run' = NewRun(dbFile)
    /\ loc' = NoLocals
    /\ webhook' = <<>>
    /\ exc' = "none"
    /\ UNCHANGED << dbFile, engine >>

LegacyDownloadHtml ==
    /\ pc = "download_html"
    /\ \E r \in NavResults \ { [kind |-> "none"] } :
          IF DownloadOk(r)
          THEN /\ pc' = "site_last_changed_date"
               /\ UNCHANGED << exc, run >>
          ELSE LegacyRaise("ClientError")
    /\ UNCHANGED << dbFile, engine, loc, webhook, prev >>

LegacyGetSiteLastChangedDate ==
    /\ pc = "site_last_changed_date"
    /\ \E m \in LegacySiteMarkers :
          /\ loc' = [loc EXCEPT !.site_last_changed_date = m]
          /\ run' = [run EXCEPT !.markerFound = (m # None)]
    /\ pc' = "db_last_changed_date"
    /\ UNCHANGED << dbFile, engine, exc, webhook, prev >>

LegacyGetDbLastChangedDate ==
    /\ pc = "db_last_changed_date"
    /\ IF OpenRaises(dbFile)
       THEN /\ LegacyRaise("JSONDecodeError")
            /\ UNCHANGED loc
       ELSE /\ loc' = [loc EXCEPT !.db_last_changed_date =
                                      get_db_last_changed_date(dbFile)]
            /\ pc' = "compare"
            /\ UNCHANGED << exc, run >>
    /\ UNCHANGED << dbFile, engine, webhook, prev >>

LegacyCompareTypeError ==
    /\ pc = "compare"
    /\ LegacyCompareRaises(loc.site_last_changed_date, loc.db_last_changed_date)
    /\ LegacyRaise("TypeError")
    /\ UNCHANGED << dbFile, engine, loc, webhook, prev >>

LegacySiteHasChanged ==
    /\ pc = "compare"
    /\ ~LegacyCompareRaises(loc.site_last_changed_date, loc.db_last_changed_date)
    /\ LegacyShouldExtract(loc.site_last_changed_date, loc.db_last_changed_date)
    /\ run' = [run EXCEPT !.branch = "changed"]
    /\ pc' = "movie_url"
    /\ UNCHANGED << dbFile, engine, loc, exc, webhook, prev >>

LegacySiteHasNotChanged ==
    /\ pc = "compare"
    /\ ~LegacyCompareRaises(loc.site_last_changed_date, loc.db_last_changed_date)
    /\ ~LegacyShouldExtract(loc.site_last_changed_date, loc.db_last_changed_date)
    /\ run' = [run EXCEPT !.branch = "unchanged", !.result = "returned"]
    /\ pc' = "idle"
    /\ UNCHANGED << dbFile, engine, loc, exc, webhook, prev >>

\* get_movie_url, then download_html(movie_url)
LegacyDownloadMovie ==
    /\ pc = "movie_url"
    /\ \E u \in MovieUrls, r \in NavResults \ { [kind |-> "none"] } :
          /\ loc' = [loc EXCEPT !.movie_url = u]
          /\ IF u # None /\ DownloadOk(r)
             THEN /\ pc' = "extract_movie_data"
                  /\ run' = [run EXCEPT !.movieNavs = 1]
                  /\ UNCHANGED exc
             ELSE LegacyRaise(IF u = None THEN "InvalidURL" ELSE "ClientError")
    /\ UNCHANGED << dbFile, engine, webhook, prev >>

\* LegacyExtract going on to the notification, past the write
LegacyExtract_ThenNotify ==
    /\ pc = "extract_movie_data"
    /\ \E t \in Titles, w \in ScreeningDatetimes, l \in LegacyLocations,
          b \in BookingUrls :
          loc' = [loc EXCEPT !.legacy_data =
                                legacy_format(t, w, l, b, loc.movie_url)]
    /\ run' = [run EXCEPT !.extracted = TRUE]
    /\ pc' = "notify"
    /\ UNCHANGED << dbFile, engine, exc, webhook, prev >>

\* get_movie_title .. get_booking_url, latest_movie_data
LegacyExtract ==
    /\ pc = "extract_movie_data"
    /\ \E t \in Titles, w \in ScreeningDatetimes, l \in LegacyLocations,
          b \in BookingUrls :
          loc' = [loc EXCEPT !.legacy_data =
                                legacy_format(t, w, l, b, loc.movie_url)]
    /\ run' = [run EXCEPT !.extracted = TRUE]
    /\ pc' = "update_db"
    /\ UNCHANGED << dbFile, engine, exc, webhook, prev >>

LegacyUpdateDb ==
    /\ pc = "update_db"
    /\ dbFile' = write_db_file(
                    NewRecord(dbFile, loc.site_last_changed_date, loc.legacy_data))
    /\ run' = [run EXCEPT !.writes = @ + 1]
    /\ pc' = "notify"
    /\ UNCHANGED << engine, loc, exc, webhook, prev >>

\* self.notifier.send_message(message), whatever was extracted
LegacyNotify ==
    /\ pc = "notify"
    /\ \E r \in ExecuteResults :
          /\ webhook' = send_message(webhook,
                 legacy_message(loc.legacy_data.m.title,
                     loc.legacy_data.m.screening_datetime,
                     loc.legacy_data.m.location,
                     loc.legacy_data.m.movie_url,
                     loc.legacy_data.m.booking_url), r)
          /\ IF r.kind = "raise"
             THEN LegacyRaise("ConnectionError")
             ELSE /\ run' = [run EXCEPT !.result = "returned"]
                  /\ pc' = "idle"
                  /\ UNCHANGED exc
    /\ UNCHANGED << dbFile, engine, loc, prev >>

NextLegacy ==
    \/ LegacyStart
    \/ LegacyDownloadHtml
    \/ LegacyGetSiteLastChangedDate
    \/ LegacyGetDbLastChangedDate
    \/ LegacyCompareTypeError
    \/ LegacySiteHasChanged
    \/ LegacySiteHasNotChanged
    \/ LegacyDownloadMovie
    \/ LegacyExtract
    \/ LegacyUpdateDb
    \/ LegacyNotify

SpecLegacy == Init /\ [][NextLegacy]_vars

(***************************************************************************)
(* The state store on its own: write_db_file and open_db_file applied to   *)
(* every state record within the bounds                                    *)
(***************************************************************************)
MaxStrLen == 2

\* a letter, the two characters JSON escapes, and a character beyond ASCII
Chars == { 97, Quote, Backslash, 229 }

RECURSIVE StringsUpTo(_)
StringsUpTo(n) ==
    IF n = 0 THEN { <<>> }
    ELSE LET shorter == StringsUpTo(n - 1)
         IN shorter \cup { Append(x, c) : x \in shorter, c \in Chars }

\* str or None; the text "null" is one of the strings
OptStrings == { None, Str(NullText) } \cup { Str(x) : x \in StringsUpTo(MaxStrLen) }

\* PersistedState: last_changed_date and latest_movie_data with its five
\* fields (the same text in title, location and movie_url, and in
\* screening_datetime and booking_url)
StateRecords ==
    { Dict([last_changed_date |-> d,
            latest_movie_data |->
                Dict([title |-> t, screening_datetime |-> w, location |-> t,
                      booking_url |-> w, movie_url |-> t])]) :
        d \in OptStrings, t \in OptStrings, w \in { None, Str(<<68>>) } }

InitDb ==
    /\ dbFile = NoFile
    /\ pc = "db_closed"
    /\ loc = [data |-> EmptyDict, read |-> EmptyDict]
    /\ engine = NoEngine
    /\ exc = "none"
    /\ webhook = <<>>
    /\ run = NoRun
    /\ prev = NoSummary

\* await write_db_file(d)
DbWrite ==
    /\ pc = "db_closed"
    /\ ~dbFile.exists
    /\ \E d \in StateRecords :
          /\ dbFile' = write_db_file(d)
          /\ loc' = [data |-> d, read |-> EmptyDict]
    /\ UNCHANGED << pc, engine, exc, webhook, run, prev >>

\* await open_db_file()
DbOpen ==
    /\ pc = "db_closed"
    /\ loc' = [loc EXCEPT !.read = open_db_file(dbFile)]
    /\ pc' = "db_read"
    /\ UNCHANGED << dbFile, engine, exc, webhook, run, prev >>

\* the file is removed: the next open finds none
DbRemove ==
    /\ pc = "db_read"
    /\ pc' = "db_closed"
    /\ dbFile' = NoFile
    /\ loc' = [data |-> EmptyDict, read |-> EmptyDict]
    /\ UNCHANGED << engine, exc, webhook, run, prev >>

NextDb ==
    \/ DbWrite
    \/ DbOpen
    \/ DbRemove

SpecDb == InitDb /\ [][NextDb]_vars

(***************************************************************************)
(* handle_consent on its own, applied to every page within the bounds      *)
(***************************************************************************)
InitConsent ==
    /\ pc = "consent_pending"
    /\ \E p \in ConsentPages :
          loc = [page |-> p, result |-> ConsentResult(FALSE, None, None, FALSE),
                 clicks |-> <<>>]
    /\ dbFile = NoFile
    /\ engine = NoEngine
    /\ exc = "none"
    /\ webhook = <<>>
    /\ run = NoRun
    /\ prev = NoSummary

\* await handle_consent(page)
ConsentHandle ==
    /\ pc = "consent_pending"
    /\ LET r == handle_consent(loc.page)
       IN  loc' = [loc EXCEPT !.result = r.result, !.clicks = r.clicks]
    /\ pc' = "consent_done"
    /\ UNCHANGED << dbFile, engine, exc, webhook, run, prev >>

NextConsent == ConsentHandle

SpecConsent == InitConsent /\ [][NextConsent]_vars

(***************************************************************************)
(* BrowserAutomationEngine on its own: a caller that uses its methods in   *)
(* any order, directly or through "async with"                             *)
(***************************************************************************)
\* pages one context holds at most
MaxPages == 2

\* what the caller saw of the last call: the method, what the engine held
\* when it was called, whether it returned or raised, the page and the
\* response of a navigation, and the pages open in the context
NoCall ==
    [op |-> "none", before |-> NoEngine, outcome |-> "none", page |-> FALSE,
     response |-> [kind |-> "none"], pages |-> 0]

Called(op, before, raises, pages) ==
    [op |-> op, before |-> before,
     outcome |-> IF raises = "none" THEN "returned" ELSE raises,
     page |-> FALSE, response |-> [kind |-> "none"], pages |-> pages]

\* what the caller has done so far: whether a call of initialize_browser,
\* and whether a call of create_context, has returned with no cleanup since
\* and, of the last cleanup, the resources held when it was called and
\* those whose close/stop it invoked
NoCalls == [initialized |-> FALSE, contexted |-> FALSE, held |-> {}, closed |-> {}]

\* the close/stop operations that raise when invoked
CloseFailures == SUBSET { "context", "browser", "playwright" }

CleanedUp(e, failing) ==
    [initialized |-> FALSE, contexted |-> FALSE, held |-> HeldResources(e),
     closed |-> cleanup_closes(e, failing)]

InitEngine ==
    /\ pc = "engine_idle"
    /\ engine = NoEngine
    /\ loc = NoCall
    /\ exc = "none"
    /\ dbFile = NoFile
    /\ webhook = <<>>
    /\ run = NoCalls
    /\ prev = NoSummary

\* await engine.initialize_browser()
EngineInitialize ==
    /\ pc \in { "engine_idle", "with_body" }
    /\ \E started \in BOOLEAN, launched \in BOOLEAN, failing \in CloseFailures :
          LET r == initialize_browser(engine, started, launched)
          IN  /\ engine' = r.engine
              /\ loc' = Called("initialize_browser", engine, r.raises,
                               IF r.raises = "none" THEN loc.pages ELSE 0)
              /\ run' = IF r.raises = "none"
                         THEN [run EXCEPT !.initialized = TRUE]
                         ELSE CleanedUp([engine EXCEPT
                                  !.playwright = engine.playwright \/ started],
                                  failing)
    /\ UNCHANGED << dbFile, pc, exc, webhook, prev >>

\* await engine.create_context()
EngineCreateContext ==
    /\ pc \in { "engine_idle", "with_body" }
    /\ \E created \in BOOLEAN, routed \in BOOLEAN :
          LET r == create_context(engine, created, routed)
          IN  /\ engine' = r.engine
              /\ loc' = Called("create_context", engine, r.raises, loc.pages)
              /\ run' = IF r.raises = "none"
                         THEN [run EXCEPT !.contexted = TRUE]
                         ELSE run
    /\ UNCHANGED << dbFile, pc, exc, webhook, prev >>

\* await engine.navigate_to_page(url)
EngineNavigate ==
    /\ pc \in { "engine_idle", "with_body" }
    /\ loc.pages < MaxPages
    /\ \E r \in NavResults :
          LET n == navigate_to_page(engine, r)
          IN  loc' = [op |-> "navigate_to_page", before |-> engine,
                      outcome |-> IF n.raises = "none" THEN "returned" ELSE n.raises,
                      page |-> n.page, response |-> r,
                      pages |-> IF n.opened THEN loc.pages + 1 ELSE loc.pages]
    /\ UNCHANGED << dbFile, pc, engine, exc, webhook, run, prev >>

\* await engine.cleanup()
EngineCleanup ==
    /\ pc \in { "engine_idle", "with_body" }
    /\ engine' = cleanup(engine)
    /\ loc' = Called("cleanup", engine, "none", 0)
    /\ \E failing \in CloseFailures : run' = CleanedUp(engine, failing)
    /\ UNCHANGED << dbFile, pc, exc, webhook, prev >>

\* async with engine: __aenter__ is initialize_browser, then create_context
EngineEnter ==
    /\ pc = "engine_idle"
    /\ \E started \in BOOLEAN, launched \in BOOLEAN, created \in BOOLEAN,
          routed \in BOOLEAN, failing \in CloseFailures :
          LET i == initialize_browser(engine, started, launched)
              c == create_context(i.engine, created, routed)
          IN  IF i.raises # "none"
              THEN /\ engine' = i.engine
                   /\ loc' = Called("__aenter__", engine, i.raises, 0)
                   /\ run' = CleanedUp([engine EXCEPT
                                 !.playwright = engine.playwright \/ started],
                                 failing)
                   /\ UNCHANGED pc
              ELSE /\ engine' = c.engine
                   /\ loc' = Called("__aenter__", engine, c.raises, loc.pages)
                   /\ run' = [run EXCEPT !.initialized = TRUE,
                                         !.contexted = @ \/ c.raises = "none"]
                   /\ pc' = IF c.raises = "none" THEN "with_body" ELSE pc
    /\ UNCHANGED << dbFile, exc, webhook, prev >>

\* the body of the with statement ends, normally or with an exception
EngineBodyEnds ==
    /\ pc = "with_body"
    /\ exc' \in { "none", "ValueError" }
    /\ pc' = "with_exit"
    /\ UNCHANGED << dbFile, engine, loc, webhook, run, prev >>

\* __aexit__: cleanup; it answers None, so the exception of the body, kept
\* in exc, goes on to the caller of the with statement
EngineExit ==
    /\ pc = "with_exit"
    /\ engine' = cleanup(engine)
    /\ loc' = Called("__aexit__", engine, "none", 0)
    /\ \E failing \in CloseFailures : run' = CleanedUp(engine, failing)
    /\ pc' = "engine_idle"
    /\ UNCHANGED << dbFile, exc, webhook, prev >>

NextEngine ==
    \/ EngineInitialize
    \/ EngineCreateContext
    \/ EngineNavigate
    \/ EngineCleanup
    \/ EngineEnter
    \/ EngineBodyEnds
    \/ EngineExit

SpecEngine == InitEngine /\ [][NextEngine]_vars

(***************************************************************************)
(* validate_extracted_data on its own, applied to every record of a set    *)
(* that holds absent, empty, short and malformed fields                    *)
(***************************************************************************)
\* titles None, '', 'T', 'Ti'; booking URLs None, '', 'b', 'http', 'https'
ValidatedRecords ==
    { MovieData(t, w, l, b, Str(DetailUrl)) :
        t \in { None, Str(<< >>), Str(<<84>>), Str(<<84, 105>>) },
        w \in { None, Str(<< >>), Str(<<68>>) },
        l \in { None, Str(<< >>), Str(default_location) },
        b \in { None, Str(<< >>), Str(<<98>>), Str(Http), Str(Http \o <<115>>) } }

InitValidate ==
    /\ pc = "validate_pending"
    /\ \E d \in ValidatedRecords : loc = [data |-> d, validation_result |-> None]
    /\ dbFile = NoFile
    /\ engine = NoEngine
    /\ exc = "none"
    /\ webhook = <<>>
    /\ run = NoRun
    /\ prev = NoSummary

\* validation_result = await validate_extracted_data(movie_data)
ValidateData ==
    /\ pc = "validate_pending"
    /\ loc' = [loc EXCEPT !.validation_result = validate_extracted_data(loc.data)]
    /\ pc' = "validated"
    /\ UNCHANGED << dbFile, engine, exc, webhook, run, prev >>

NextValidate == ValidateData

SpecValidate == InitValidate /\ [][NextValidate]_vars

(***************************************************************************)
(* _clean_movie_title on its own, applied to every raw title made of at    *)
(* most MaxPieces pieces                                                   *)
(***************************************************************************)
MaxPieces == 4

\* 'a', ' ', '"', the label, '(1942)', '(19)' and a newline
TitlePieces ==
    { <<97>>, <<Space>>, <<Quote>>, Label, << 40, 49, 57, 52, 50, 41 >>, << 40, 49, 57, 41 >>, <<Newline>> }

RECURSIVE RawTitlesUpTo(_)
RawTitlesUpTo(n) ==
    IF n = 0 THEN { << >> }
    ELSE LET shorter == RawTitlesUpTo(n - 1)
         IN shorter \cup { x \o y : x \in shorter, y \in TitlePieces }

InitTitle ==
    /\ pc = "title_raw"
    /\ \E raw \in RawTitlesUpTo(MaxPieces) : loc = [raw_title |-> raw, title |-> None]
    /\ dbFile = NoFile
    /\ engine = NoEngine
    /\ exc = "none"
    /\ webhook = <<>>
    /\ run = NoRun
    /\ prev = NoSummary

\* title = self._clean_movie_title(raw_title)
CleanTitle ==
    /\ pc = "title_raw"
    /\ loc' = [loc EXCEPT !.title = clean_movie_title(loc.raw_title)]
    /\ pc' = "title_cleaned"
    /\ UNCHANGED << dbFile, engine, exc, webhook, run, prev >>

NextTitle == CleanTitle

SpecTitle == InitTitle /\ [][NextTitle]_vars

(***************************************************************************)
(* extract_movie_data on its own, field by field, on detail pages that     *)
(* answer each strategy with a timeout, an error, nothing or a value       *)
(***************************************************************************)
\* elements with the text "Tid:" a page holds at most
MaxTidElements == 2

\* page.url: 'http://a/' and 'http://a/d/p'
ExtractUrls ==
    { Http \o << 58, 47, 47, 97, 47 >>, Http \o << 58, 47, 47, 97, 47, 100, 47, 112 >> }

\* what the page answers to the title selectors: no element within the
\* timeout, an error, or an element whose text_content() is '', '""', ' T'
\* or 'Throwback Thursday:U(1942)'
TitlePages ==
    [ 1..Len(title_selectors) ->
        { [kind |-> "timeout"], [kind |-> "error"] } \cup
        { [kind |-> "text", text |-> t] :
            t \in { << >>, <<Quote, Quote>>, <<Space, 84>>,
                    Label \o << 85, 40, 49, 57, 52, 50, 41 >> } } ]

RECURSIVE TidElementsUpTo(_)
TidElementsUpTo(n) ==
    IF n = 0 THEN { << >> }
    ELSE LET shorter == TidElementsUpTo(n - 1)
         IN  shorter \cup
             { Append(s, e) : s \in shorter,
               e \in { [kind |-> "error"], [kind |-> "empty"],
                       [kind |-> "text", datetime_text |-> <<69>>] } }

\* what the page answers to the three datetime strategies: for time[datetime]
\* no element within the timeout, an error, no datetime attribute, one that
\* fromisoformat rejects, or one that strftime formats; for "Tid:" an error
\* or the elements, each with an error, no date in the text of its parent or
\* the date found there; for content() an error, no date or the date found
DatetimePages ==
    [ time_element :
        { [kind |-> "timeout"], [kind |-> "error"], [kind |-> "no_attribute"],
          [kind |-> "unparsable"], [kind |-> "formatted", formatted_time |-> <<68>>] },
      tid :
        { [kind |-> "error"] } \cup
        { [kind |-> "elements", elements |-> s] : s \in TidElementsUpTo(MaxTidElements) },
      content :
        { [kind |-> "error"], [kind |-> "empty"],
          [kind |-> "text", datetime_text |-> <<70>>] } ]

\* what content() answers to _extract_location: an error, no text after
\* "Plats:", or that text
LocationResponses ==
    { [kind |-> "error"], [kind |-> "empty"], [kind |-> "text", location |-> <<80>>] }

\* what the page answers to the booking selectors: no element within the
\* timeout, an error, no href, or the href 'http://b', 'tel:1', 'httpb', '/b'
\* or 'c'
BookingPages ==
    [ 1..Len(booking_url_selectors) ->
        { [kind |-> "timeout"], [kind |-> "error"], [kind |-> "no_href"] } \cup
        { [kind |-> "href", href |-> h] :
            h \in { Http \o << 58, 47, 47, 98 >>, << 116, 101, 108, 58, 49 >>,
                    Http \o <<98>>, << Slash, 98 >>, <<99>> } } ]

\* movie_data = MovieData(extracted_at=datetime.now(), source_url=page.url)
InitExtract ==
    /\ pc = "extract_title"
    /\ \E u \in ExtractUrls :
          loc = [url |-> u, movie_data |-> MovieData(None, None, None, None, None),
                 fields |-> << >>, responses |-> << >>, attempted |-> 0]
    /\ dbFile = NoFile
    /\ engine = NoEngine
    /\ exc = "none"
    /\ webhook = <<>>
    /\ run = NoRun
    /\ prev = NoSummary

\* movie_data.title = await self._extract_movie_title(page)
ExtractTitle ==
    /\ pc = "extract_title"
    /\ \E p \in TitlePages :
          LET r == TryTitleSelectors(p, 1)
          IN  loc' = [loc EXCEPT !.movie_data.title = r.value,
                                 !.fields = Append(@, "title"),
                                 !.responses = p, !.attempted = r.attempted]
    /\ pc' = "extract_screening_datetime"
    /\ UNCHANGED << dbFile, engine, exc, webhook, run, prev >>

\* movie_data.screening_datetime = await self._extract_screening_datetime(page):
\* what it raises leaves extract_movie_data
ExtractScreeningDatetime ==
    /\ pc = "extract_screening_datetime"
    /\ \E p \in DatetimePages :
          LET r == extract_screening_datetime(p)
          IN  /\ loc' = [loc EXCEPT !.movie_data.screening_datetime =
                                        IF r.raises = "none" THEN r.value ELSE @,
                                    !.fields = Append(@, "screening_datetime"),
                                    !.responses = p, !.attempted = r.attempted]
              /\ exc' = r.raises
              /\ pc' = IF r.raises = "none" THEN "extract_location"
                       ELSE "extract_raised"
    /\ UNCHANGED << dbFile, engine, webhook, run, prev >>

\* movie_data.location = await self._extract_location(page)
ExtractLocation ==
    /\ pc = "extract_location"
    /\ \E p \in LocationResponses :
          LET r == extract_location(p)
          IN  loc' = [loc EXCEPT !.movie_data.location = r.value,
                                 !.fields = Append(@, "location"),
                                 !.responses = p, !.attempted = r.attempted]
    /\ pc' = "extract_booking_url"
    /\ UNCHANGED << dbFile, engine, exc, webhook, run, prev >>

\* movie_data.booking_url = await self._extract_booking_url(page);
\* movie_data.movie_url = page.url; return movie_data
ExtractBookingUrl ==
    /\ pc = "extract_booking_url"
    /\ \E p \in BookingPages :
          LET r == TryBookingSelectors(loc.url, p, 1)
          IN  loc' = [loc EXCEPT !.movie_data.booking_url = r.value,
                                 !.movie_data.movie_url = Str(loc.url),
                                 !.fields = Append(@, "booking_url"),
                                 !.responses = p, !.attempted = r.attempted]
    /\ pc' = "extract_returned"
    /\ UNCHANGED << dbFile, engine, exc, webhook, run, prev >>

NextExtract ==
    \/ ExtractTitle
    \/ ExtractScreeningDatetime
    \/ ExtractLocation
    \/ ExtractBookingUrl

SpecExtract == InitExtract /\ [][NextExtract]_vars

(***************************************************************************)
(* _extract_datetime_from_text and the formatting of the time element on   *)
(* their own, applied to every text made of at most MaxDatetimePieces       *)
(* pieces and to the datetimes fromisoformat can return                    *)
(***************************************************************************)
MaxDatetimePieces == 4

\* '2026-02-26', ' ', '19.00', '7.30', '6 Maj 9.05' and '1'
DatetimePieces ==
    { << 50, 48, 50, 54, 45, 48, 50, 45, 50, 54 >>, << Space >>, << 49, 57, 46, 48, 48 >>, << 55, 46, 51, 48 >>, << 54, 32, 77, 97, 106, 32, 57, 46, 48, 53 >>, << 49 >> }

RECURSIVE DatetimeTextsUpTo(_)
DatetimeTextsUpTo(n) ==
    IF n = 0 THEN { << >> }
    ELSE LET shorter == DatetimeTextsUpTo(n - 1)
         IN  shorter \cup { x \o y : x \in shorter, y \in DatetimePieces }

\* datetime.now().year
ClockYears == { 2026, 2027 }

\* what datetime.fromisoformat returns of a datetime attribute it accepts
TimeElementDatetimes ==
    [ year : { 1999, 2026 }, month : { 2, 12 }, day : { 6, 26 },
      hour : { 0, 7, 19 }, minute : { 0, 5, 30 } ]

InitDatetime ==
    /\ \/ /\ pc = "datetime_text_pending"
          /\ \E t \in DatetimeTextsUpTo(MaxDatetimePieces), y \in ClockYears :
                loc = [text |-> t, year |-> y, datetime_text |-> None]
       \/ /\ pc = "time_element_pending"
          /\ \E dt \in TimeElementDatetimes : loc = [dt |-> dt, formatted_time |-> None]
    /\ dbFile = NoFile
    /\ engine = NoEngine
    /\ exc = "none"
    /\ webhook = <<>>
    /\ run = NoRun
    /\ prev = NoSummary

\* datetime_text = self._extract_datetime_from_text(page_content)
ExtractDatetimeFromText ==
    /\ pc = "datetime_text_pending"
    /\ loc' = [loc EXCEPT !.datetime_text = extract_datetime_from_text(loc.text, loc.year)]
    /\ pc' = "datetime_from_text"
    /\ UNCHANGED << dbFile, engine, exc, webhook, run, prev >>

\* formatted_time = dt.strftime('%Y-%m-%d %H:%M')
FormatTimeElement ==
    /\ pc = "time_element_pending"
    /\ loc' = [loc EXCEPT !.formatted_time = Str(strftime(loc.dt))]
    /\ pc' = "datetime_from_time_element"
    /\ UNCHANGED << dbFile, engine, exc, webhook, run, prev >>

NextDatetime ==
    \/ ExtractDatetimeFromText
    \/ FormatTimeElement

SpecDatetime == InitDatetime /\ [][NextDatetime]_vars

(***************************************************************************)
(* The claims                                                              *)
(***************************************************************************)
\* the run has passed the comparison of the two markers, or failed in it
Compared == run.branch # "none" \/ run.failedAt = "compare"

\* the stored marker is absent, or the site marker is present and greater
Newer(site, db) ==
    IF db = None THEN TRUE
    ELSE IF site = None THEN FALSE
    ELSE StrLess(db.s, site.s)

\* C1: a run takes the changed branch exactly when the stored marker is
\* absent or the site marker is present and lexically greater, and otherwise
\* takes the unchanged branch without raising.
C1_ChangeDetection ==
    Compared =>
        /\ (run.branch = "changed")
              <=> Newer(loc.site_last_changed_date, loc.db_last_changed_date)
        /\ ~Newer(loc.site_last_changed_date, loc.db_last_changed_date)
              => (run.branch = "unchanged" /\ run.failedAt # "compare")

\* the run that just ended read from the page the marker the run before read
SameMarkerTwice ==
    /\ pc = "idle"
    /\ run.result \in { "returned", "raised" }
    /\ prev.ran
    /\ prev.marker # None
    /\ PageMarkerOf(run, loc) = prev.marker

\* C2: of two consecutive runs that read the same marker from the page, the
\* first having extracted a complete record, exactly one screening
\* notification is sent in all, and the second run extracts nothing, writes
\* nothing and notifies nobody.
C2_Idempotence ==
    (SameMarkerTwice /\ prev.complete) =>
        /\ prev.screenings + Cardinality(Screenings(webhook)) = 1
        /\ ~run.extracted
        /\ run.writes = 0
        /\ webhook = <<>>

\* C3: every screening notification executed on the webhook carries a title,
\* a screening time, a location and a booking URL, none of them empty.
C3_NotificationGate ==
    \A i \in Screenings(webhook) :
        /\ Truthy(webhook[i].payload.title)
        /\ Truthy(webhook[i].payload.when)
        /\ Truthy(webhook[i].payload.where)
        /\ Truthy(webhook[i].payload.book)

\* the run ended after the changed branch extracted all four fields
EndedComplete ==
    /\ pc = "idle"
    /\ run.branch = "changed"
    /\ run.extracted
    /\ Complete(loc.legacy_data)

\* C4: a run that took the changed branch and extracted all four fields has
\* executed the webhook with the screening embed made of them, and has sent
\* no error notification.
C4_AlertDelivery ==
    EndedComplete =>
        /\ \E i \in Screenings(webhook) :
              webhook[i].payload =
                  generate_embed(loc.legacy_data.m.title,
                                 loc.legacy_data.m.screening_datetime,
                                 loc.legacy_data.m.location,
                                 loc.legacy_data.m.movie_url,
                                 loc.legacy_data.m.booking_url)
        /\ Errors(webhook) = {}

\* C5: from the moment a run takes the unchanged branch it has opened no
\* detail page, extracted nothing, left the state-store file as it found it
\* and executed nothing on the webhook, and it returns.
C5_UnchangedNoOp ==
    run.branch = "unchanged" =>
        /\ run.movieNavs = 0
        /\ ~run.extracted
        /\ run.writes = 0
        /\ dbFile = run.dbAtStart
        /\ webhook = <<>>
        /\ pc \in { "finally", "idle" }
        /\ pc = "idle" => run.result = "returned"

C5_Witness ==
    /\ pc = "idle"
    /\ run.branch = "unchanged"
    /\ run.result = "returned"
    /\ loc.site_last_changed_date = Str(<<49, 50>>)
    /\ loc.db_last_changed_date = Str(<<50>>)

\* the run ended after the changed branch extracted a record that lacks one
\* of the four fields
EndedIncomplete ==
    /\ pc = "idle"
    /\ run.branch = "changed"
    /\ run.extracted
    /\ ~Complete(loc.legacy_data)

\* C6: a changed run that extracted an incomplete record has written the
\* state store once, the file reads back with the marker of this run and
\* the partial record, and no screening notification was sent.
C6_IncompleteRecord ==
    EndedIncomplete =>
        /\ run.writes = 1
        /\ ~OpenRaises(dbFile)
        /\ DictGet(open_db_file(dbFile), "last_changed_date")
              = loc.site_last_changed_date
        /\ DictGet(open_db_file(dbFile), "latest_movie_data") = loc.legacy_data
        /\ Screenings(webhook) = {}

C6_Witness ==
    /\ EndedIncomplete
    /\ run.writes = 1
    /\ ~run.dbAtStart.exists
    /\ DictGet(loc.legacy_data, "booking_url") = None
    /\ Truthy(DictGet(loc.legacy_data, "title"))

\* the run ended after a navigation failed
EndedOnNavigationFailure ==
    /\ pc = "idle"
    /\ run.failedAt \in { "navigate_to_page", "navigate_to_movie" }

C8_ErrorContainment ==
    (pc = "idle" /\ run.failedAt # "none") =>
        /\ run.result = "returned"
        /\ Cardinality(Errors(webhook)) = 1
        /\ \A i \in Errors(webhook) : webhook[i].payload = error_msg(run.error)

\* the run found no stored marker: no file, or a document without
\* last_changed_date
NoStoredMarker ==
    /\ ~OpenRaises(run.dbAtStart)
    /\ get_db_last_changed_date(run.dbAtStart) = None

\* C9 as claimed: a run that finds no stored marker always extracts the
\* fields.
C9_FirstRunExtracts ==
    (pc = "idle" /\ Compared /\ NoStoredMarker) => run.extracted

\* the run went into extract_movie_data
ExtractionAttempted == run.extracted \/ run.failedAt = "extract_movie_data"

\* C9 as amended: a run that finds no stored marker always takes the changed
\* branch, whatever the page's marker; it goes into field extraction exactly
\* when a movie URL was found and the detail page was reached, and otherwise
\* leaves the state store as it was.
C9_FirstRunChanged ==
    (Compared /\ NoStoredMarker) =>
        /\ run.branch = "changed"
        /\ pc = "idle" =>
              /\ ExtractionAttempted
                    <=> (Truthy(loc.movie_url) /\ run.movieNavs = 1)
              /\ ~ExtractionAttempted => dbFile = run.dbAtStart

C9_Witness ==
    /\ pc = "idle"
    /\ ~run.dbAtStart.exists
    /\ run.markerFound
    /\ loc.site_last_changed_date = None
    /\ run.extracted
    /\ run.writes = 1

\* C10: what open_db_file reads after write_db_file(d) equals d, field for
\* field, and open_db_file on a missing file answers {}.
C10_RoundTrip ==
    pc = "db_read" =>
        IF dbFile.exists THEN loc.read = loc.data ELSE loc.read = EmptyDict

C10_Witness ==
    /\ pc = "db_read"
    /\ dbFile.exists
    /\ loc.read = loc.data
    /\ DictGet(loc.data, "last_changed_date") = Str(<<Quote, Backslash>>)
    /\ DictGet(DictGet(loc.data, "latest_movie_data"), "title") = None

\* C11: in every run, on every path, the state-store file is written at most
\* once, and a run that has not written has left the file as it found it.
C11_AtMostOneWrite ==
    /\ run.writes <= 1
    /\ (run.result # "never" /\ run.writes = 0) => dbFile = run.dbAtStart

C11_Witness ==
    /\ pc = "idle"
    /\ run.writes = 1
    /\ run.failedAt = "notify"
    /\ dbFile # run.dbAtStart

\* handle_consent found a dialog and could click no accept button
ConsentFailed(c) == c.handled /\ c.dialog_detected /\ ~c.success

\* on every page with a dialog and no button whose click goes through,
\* handle_consent answers success = False with an error message
ConsentFailureReturns ==
    \A p \in ConsentPages :
        (detect_consent_dialog(p) /\ \A i \in DOMAIN p.buttons : ButtonAt(p, i) # "clickable")
            => LET r == handle_consent(p).result
               IN  /\ r.success = FALSE
                   /\ r.dialog_detected = TRUE
                   /\ r.error_message # None

\* C17: a failed consent handling is answered, not raised, and the run goes
\* on: after a failure on the monitored page the run reads the markers and
\* compares them (unless the state store cannot be read) and extracts
\* whenever the changed branch reaches the detail page; after a failure on
\* the detail page the run goes into field extraction.
C17_ConsentNonFatal ==
    /\ ConsentFailureReturns
    /\ run.failedAt # "handle_consent"
    /\ (pc = "idle" /\ ConsentFailed(run.consent)) =>
          /\ Compared \/ run.failedAt = "db_last_changed_date"
          /\ (run.branch = "changed" /\ Truthy(loc.movie_url) /\ run.movieNavs = 1)
                => ExtractionAttempted
    /\ (pc = "idle" /\ ConsentFailed(run.movieConsent)) => ExtractionAttempted

C17_Witness ==
    /\ pc = "idle"
    /\ ConsentFailed(run.consent)
    /\ ConsentFailed(run.movieConsent)
    /\ run.branch = "changed"
    /\ run.extracted
    /\ run.writes = 1

\* C15: when no consent dialog is detected, handle_consent clicks nothing
\* and answers success = True with dialog_detected = False.
C15_ConsentNoOp ==
    (pc = "consent_done" /\ loc.page.dialog # "visible") =>
        /\ loc.clicks = <<>>
        /\ loc.result.success = TRUE
        /\ loc.result.dialog_detected = FALSE

C15_Witness ==
    /\ pc = "consent_done"
    /\ loc.page.dialog = "absent"
    /\ ButtonAt(loc.page, 1) = "clickable"
    /\ loc.clicks = <<>>
    /\ loc.result.success

\* the selectors of the page that find a visible and enabled button
VisibleEnabled(page) ==
    { i \in DOMAIN CONSENT_SELECTORS : ButtonAt(page, i) \in { "clickable", "blocked" } }

\* the selectors of the page whose button takes the click
Clickable(page) ==
    { i \in DOMAIN CONSENT_SELECTORS : ButtonAt(page, i) = "clickable" }

\* the least of a non-empty set of selector positions
First(S) == CHOOSE i \in S : \A j \in S : i <= j

\* the position of a selector in CONSENT_SELECTORS
PositionOf(selector) ==
    CHOOSE i \in DOMAIN CONSENT_SELECTORS : CONSENT_SELECTORS[i] = selector

\* C16 as claimed: with a dialog detected, exactly one button is clicked, the
\* first in list order that is visible and enabled, and the result reports
\* success with that selector as method_used.
C16_ConsentPriority ==
    (pc = "consent_done" /\ loc.page.dialog = "visible"
        /\ VisibleEnabled(loc.page) # {}) =>
        /\ loc.clicks = << CONSENT_SELECTORS[First(VisibleEnabled(loc.page))] >>
        /\ loc.result.success = TRUE
        /\ loc.result.method_used
              = Str(CONSENT_SELECTORS[First(VisibleEnabled(loc.page))])

\* C16 as amended: with a dialog detected, the selectors are tried in list
\* order; only visible and enabled buttons are clicked; a button whose click
\* raises is passed over for the next selector; the first click that goes
\* through ends the loop, nothing after it is clicked, and the result
\* reports success with that selector as method_used.
C16_ConsentFirstClickThatSucceeds ==
    (pc = "consent_done" /\ loc.page.dialog = "visible"
        /\ Clickable(loc.page) # {}) =>
        LET f == First(Clickable(loc.page))
            clicked == { i \in VisibleEnabled(loc.page) : i <= f }
        IN  /\ Len(loc.clicks) = Cardinality(clicked)
            /\ \A k \in DOMAIN loc.clicks : PositionOf(loc.clicks[k]) \in clicked
            /\ \A k, l \in DOMAIN loc.clicks :
                  k < l => PositionOf(loc.clicks[k]) < PositionOf(loc.clicks[l])
            /\ loc.clicks[Len(loc.clicks)] = CONSENT_SELECTORS[f]
            /\ loc.result.success = TRUE
            /\ loc.result.method_used = Str(CONSENT_SELECTORS[f])

C16_Witness ==
    /\ pc = "consent_done"
    /\ loc.page.dialog = "visible"
    /\ ButtonAt(loc.page, 2) = "disabled"
    /\ ButtonAt(loc.page, 4) = "clickable"
    /\ loc.clicks = << CONSENT_SELECTORS[4] >>
    /\ loc.result.method_used = Str(CONSENT_SELECTORS[4])

\* C18: after cleanup() has run, called directly or by __aexit__ (also after
\* the body of the with statement raised), from whatever the engine held,
\* is_initialized is false and the engine holds no browser and no context;
\* cleanup() has returned, not raised.
C18_CleanupPostState ==
    loc.op \in { "cleanup", "__aexit__" } =>
        /\ ~is_initialized(engine)
        /\ ~engine.browser
        /\ ~engine.context
        /\ loc.outcome = "returned"

C18_Witness ==
    /\ loc.op = "__aexit__"
    /\ exc = "ValueError"
    /\ loc.before.context
    /\ loc.before.browser
    /\ engine = NoEngine

\* C19: navigate_to_page returns a page only for a response with a status
\* below 400; whenever it returns no page it has raised RuntimeError.
C19_NavigateToPage ==
    loc.op = "navigate_to_page" =>
        /\ loc.page <=> loc.outcome = "returned"
        /\ loc.page => (loc.response.kind = "response" /\ loc.response.status < 400)
        /\ ~loc.page => loc.outcome = "RuntimeError"

C19_Witness ==
    /\ loc.op = "navigate_to_page"
    /\ loc.before.context
    /\ loc.response.kind = "response"
    /\ loc.response.status = 400
    /\ ~loc.page
    /\ loc.outcome = "RuntimeError"

\* a field without a value: None or the empty text
Absent(v) == v = None \/ v = Str(<< >>)

\* title, screening_datetime, location, booking_url, in that order, less
\* those the record has
AbsentFields(data) ==
    LET IsAbsent(f) == Absent(data[f])
    IN  SelectSeq(<< "title", "screening_datetime", "location", "booking_url" >>,
                  IsAbsent)

\* C12: missing_fields lists exactly the required fields that are absent
\* (None or empty), in the order title, screening_datetime, location,
\* booking_url; is_valid is true exactly when that list is empty; the
\* warnings (a title of fewer than 2 characters, a booking URL not starting
\* with 'http') are raised exactly then and leave is_valid as it is.
C12_Validation ==
    pc = "validated" =>
        LET r == loc.validation_result
            d == loc.data
        IN  /\ r.missing_fields = AbsentFields(d)
            /\ r.is_valid <=> (r.missing_fields = << >>)
            /\ r.is_valid <=> (AbsentFields(d) = << >>)
            /\ ("Title seems too short" \in { r.warnings[i] : i \in DOMAIN r.warnings })
                  <=> (~Absent(d.title) /\ Len(d.title.s) < 2)
            /\ ("Booking URL may be malformed" \in { r.warnings[i] : i \in DOMAIN r.warnings })
                  <=> (~Absent(d.booking_url) /\ ~StartsWith(d.booking_url.s, Http))

C12_Witness ==
    /\ pc = "validated"
    /\ loc.data.title = Str(<<84>>)
    /\ loc.data.booking_url = Str(<<98>>)
    /\ loc.data.location = None
    /\ loc.data.screening_datetime = None
    /\ loc.validation_result.missing_fields = << "screening_datetime", "location" >>
    /\ ~loc.validation_result.is_valid
    /\ Len(loc.validation_result.warnings) = 2

\* the positions of the double quotes of a text
Quotes(raw) == { i \in 1..Len(raw) : raw[i] = Quote }

\* the positions of the parenthesized 4-digit years of a text
Years(raw) == { m \in 1..Len(raw) : YearAt(raw, m) }

\* the text after the first label
AfterLabel(raw) ==
    SubSeq(raw, Least(Occurrences(raw, Label)) + Len(Label), Len(raw))

\* the texts that stand between a label and a year after it
PatternTitles(raw) ==
    { SubSeq(raw, x[1] + Len(Label), x[2] - 1) :
        x \in { y \in Occurrences(raw, Label) \X Years(raw) :
                  y[2] > y[1] + Len(Label) } }

\* a text less its parenthesized 4-digit years
RECURSIVE WithoutYears(_)
WithoutYears(t) ==
    IF Years(t) = {} THEN t
    ELSE SubSeq(t, 1, Least(Years(t)) - 1)
            \o WithoutYears(SubSeq(t, Least(Years(t)) + 6, Len(t)))

\* C20 as claimed: the first quoted content if the raw text holds two double
\* quotes; else <title> trimmed if the text holds the label, a title and a
\* parenthesized year; else the text after the label less its years,
\* trimmed, if it holds the label; else the raw text trimmed.
C20_TitleCleaning ==
    pc = "title_cleaned" =>
        LET raw == loc.raw_title
        IN  IF Cardinality(Quotes(raw)) >= 2
            THEN loc.title = Str(SubSeq(raw, Least(Quotes(raw)) + 1,
                                  Least(Quotes(raw) \ { Least(Quotes(raw)) }) - 1))
            ELSE IF PatternTitles(raw) # {}
            THEN \E t \in PatternTitles(raw) : loc.title = Str(Strip(t))
            ELSE IF Occurrences(raw, Label) # {}
            THEN loc.title = Str(Strip(WithoutYears(AfterLabel(raw))))
            ELSE loc.title = Str(Strip(raw))

\* the pairs of double quotes with neither a quote nor a newline between
QuotedOnOneLine(raw) ==
    { x \in Quotes(raw) \X Quotes(raw) :
        /\ x[1] < x[2]
        /\ \A k \in (x[1] + 1)..(x[2] - 1) : raw[k] \notin { Quote, Newline } }

\* the texts t without a newline such that the label at i, whitespace, t,
\* whitespace and the year at m follow one another in the raw text
LineTitlesBetween(raw, i, m) ==
    LET a == i + Len(Label)
        starts == { st \in a..(m - 1) : \A k \in a..(st - 1) : IsSpace(raw[k]) }
        ends == { e \in a..(m - 1) : \A k \in (e + 1)..(m - 1) : IsSpace(raw[k]) }
    IN  { SubSeq(raw, y[1], y[2]) :
            y \in { z \in starts \X ends :
                      /\ z[1] <= z[2]
                      /\ \A k \in z[1]..z[2] : raw[k] # Newline } }

LineTitles(raw) ==
    UNION { LineTitlesBetween(raw, x[1], x[2]) :
              x \in Occurrences(raw, Label) \X Years(raw) }

\* C20 as amended: no title (None) for the empty text; else the content of
\* the first pair of double quotes on one line; else <title> trimmed if the
\* text holds the label, whitespace, a non-empty <title> on one line,
\* whitespace and a parenthesized year; else the text after the first label
\* less its years and the whitespace around them, trimmed; else the raw
\* text trimmed.
C20_TitleCleaningByLine ==
    pc = "title_cleaned" =>
        LET raw == loc.raw_title
        IN  IF raw = << >> THEN loc.title = None
            ELSE IF QuotedOnOneLine(raw) # {}
            THEN \E x \in QuotedOnOneLine(raw) :
                    /\ \A y \in QuotedOnOneLine(raw) : x[1] <= y[1]
                    /\ loc.title = Str(SubSeq(raw, x[1] + 1, x[2] - 1))
            ELSE IF LineTitles(raw) # {}
            THEN \E t \in LineTitles(raw) : loc.title = Str(Strip(t))
            ELSE IF Occurrences(raw, Label) # {}
            THEN loc.title = Str(Strip(RemoveYears(AfterLabel(raw))))
            ELSE loc.title = Str(Strip(raw))

C20_Witness ==
    /\ pc = "title_cleaned"
    /\ loc.raw_title = Label \o << Quote, 97, Quote >>
    /\ loc.title = Str(<< 97 >>)


\* the field extract_movie_data has just extracted
LastField == loc.fields[Len(loc.fields)]

\* what each strategy of that field yields on the page, in the order of the
\* code: its value, None where it fails or finds nothing
StrategyYields ==
    IF LastField = "title"
    THEN [i \in 1..Len(title_selectors) |-> TitleFrom(loc.responses[i])]
    ELSE IF LastField = "screening_datetime"
    THEN << IF loc.responses.time_element.kind = "formatted"
            THEN Str(loc.responses.time_element.formatted_time) ELSE None,
            TidDatetime(loc.responses.tid),
            IF loc.responses.content.kind = "text"
            THEN Str(loc.responses.content.datetime_text) ELSE None >>
    ELSE IF LastField = "location"
    THEN << IF loc.responses.kind = "text" THEN Str(loc.responses.location) ELSE None >>
    ELSE [i \in 1..Len(booking_url_selectors) |-> BookingFrom(loc.url, loc.responses[i])]

\* the strategies that yield a value
Yielding == { i \in 1..Len(StrategyYields) : StrategyYields[i] # None }

\* the strategies the claims expect to be entered: all up to the first one
\* that yields, all of them when none does
ExpectedAttempts == IF Yielding = {} THEN Len(StrategyYields) ELSE Least(Yielding)

ExtractPcs ==
    { "extract_title", "extract_screening_datetime", "extract_location",
      "extract_booking_url", "extract_returned", "extract_raised" }

\* C13: once the title, the screening datetime or the booking URL was
\* extracted, its strategies were entered in order up to the first one that
\* yields a value and no further, the field holds that value, and when no
\* strategy yields one the field is None; no exception was raised.
C13_StrategyChain ==
    (pc \in ExtractPcs /\ loc.fields # << >> /\ LastField # "location") =>
        /\ exc = "none"
        /\ loc.attempted = ExpectedAttempts
        /\ loc.movie_data[LastField] =
              IF Yielding = {} THEN None ELSE StrategyYields[Least(Yielding)]

\* a strategy of the field just extracted met a timeout or an error of the
\* page
StrategyFailed ==
    \/ /\ LastField \in { "title", "booking_url" }
       /\ \E i \in 1..Len(loc.responses) : loc.responses[i].kind \in { "timeout", "error" }
    \/ /\ LastField = "screening_datetime"
       /\ \/ loc.responses.time_element.kind \in { "timeout", "error" }
          \/ loc.responses.tid.kind = "error"
          \/ loc.responses.content.kind = "error"
    \/ /\ LastField = "location"
       /\ loc.responses.kind = "error"

\* C14: a timeout or an error of the page in a strategy never leaves
\* extract_movie_data: the strategies after it are entered until one
\* yields, the fields after it are extracted, and the record is returned.
C14_FaultTolerance ==
    (pc \in ExtractPcs /\ loc.fields # << >> /\ StrategyFailed) =>
        /\ exc = "none"
        /\ pc # "extract_raised"
        /\ loc.attempted = ExpectedAttempts
        /\ pc = "extract_returned" => loc.fields = required_fields


\* the places where text holds a date 'YYYY-MM-DD', whitespace and a time
\* 'H.MM' or 'HH.MM': where the date starts, where the time starts and how
\* many digits its hour has
IsoOccurrences(text) ==
    { o \in { i \in 1..Len(text) : DateAt(text, i) } \X (1..Len(text)) \X { 1, 2 } :
        /\ o[2] > o[1] + 10
        /\ \A k \in (o[1] + 10)..(o[2] - 1) : IsSpace(text[k])
        /\ o[3] \in HourAt(text, o[2]) }

\* the date of an occurrence, a space, its hour in two digits, ':' and its
\* minutes
Normalised(text, o) ==
    SubSeq(text, o[1], o[1] + 9) \o <<Space>>
        \o (IF o[3] = 1 THEN <<Zero>> ELSE << >>) \o SubSeq(text, o[2], o[2] + o[3] - 1)
        \o <<Colon>> \o SubSeq(text, o[2] + o[3] + 1, o[2] + o[3] + 2)

\* 'YYYY-MM-DD HH:MM'
HasDatetimeShape(s) ==
    /\ Len(s) = 16
    /\ DateAt(s, 1)
    /\ s[11] = Space
    /\ IsDigit(s[12]) /\ IsDigit(s[13])
    /\ s[14] = Colon
    /\ IsDigit(s[15]) /\ IsDigit(s[16])

IsAbsoluteUrl(h) ==
    \E k \in 2..Len(h) :
        /\ h[k] = Colon
        /\ \A x \in 1..(k - 1) : h[x] \in (65..90) \cup (97..122)

\* scheme and host of u: u up to the slash that ends the host
SchemeHost(u) ==
    LET ends == { p \in 1..Len(u) :
                    /\ u[p] = Slash
                    /\ Cardinality({ q \in 1..(p - 1) : u[q] = Slash }) = 2 }
    IN  IF ends = {} THEN u ELSE SubSeq(u, 1, Least(ends) - 1)

\* the directory of u: u up to its last slash
DirectoryOf(u) == SubSeq(u, 1, Greatest({ p \in 1..Len(u) : u[p] = Slash }) - 1)

\* C22: the booking URL extract_movie_data returns is the link target h of
\* the selector that gave it, unchanged when h is absolute, after scheme and
\* host of the page's URL when h starts with '/', after the directory of
\* the page's URL and a '/' otherwise; it is an absolute URL.
C22_BookingUrlResolution ==
    (pc = "extract_returned" /\ loc.movie_data.booking_url # None) =>
        LET h == loc.responses[loc.attempted].href
        IN  /\ loc.movie_data.booking_url.s =
                  IF IsAbsoluteUrl(h) THEN h
                  ELSE IF h[1] = Slash THEN SchemeHost(loc.url) \o h
                  ELSE DirectoryOf(loc.url) \o <<Slash>> \o h
            /\ IsAbsoluteUrl(loc.movie_data.booking_url.s)


\* the run compared the markers after it found no marker on the page
ComparedWithoutPageMarker == run.branch # "none" /\ ~run.markerFound

\* C23: in a run that finds no marker on the page the site marker is the
\* time of the clock and the run takes the changed branch, whatever marker
\* is stored.
C23_WallClockFallback ==
    ComparedWithoutPageMarker =>
        /\ loc.site_last_changed_date \in { Str(now) : now \in NowValues }
        /\ run.branch = "changed"

\* C23, amended: in a run that finds no marker on the page the site marker
\* is the time of the clock, and the run takes the changed branch exactly
\* when no marker is stored or the stored marker is lexically below that
\* time.
C23_WallClockFallbackIfNewer ==
    ComparedWithoutPageMarker =>
        /\ loc.site_last_changed_date \in { Str(now) : now \in NowValues }
        /\ run.branch = "changed" <=>
              \/ loc.db_last_changed_date = None
              \/ StrLess(loc.db_last_changed_date.s, loc.site_last_changed_date.s)

\* a run without a page marker that took the changed branch over a stored
\* marker
C23_Witness ==
    /\ ComparedWithoutPageMarker
    /\ run.branch = "changed"
    /\ loc.db_last_changed_date # None


\* the step of the pipeline go() stands at: 1 page fetch, 2 state read and
\* change detection, 3 field extraction, 4 state-store write,
\* 5 notification, 6 the end of the run
PipelineStep(p) ==
    IF p \in { "initialize_browser", "create_context", "navigate_to_page",
               "handle_consent", "download_html" } THEN 1
    ELSE IF p \in { "site_last_changed_date", "db_last_changed_date", "compare" } THEN 2
    ELSE IF p \in { "movie_url", "navigate_to_movie", "extract_movie_data" } THEN 3
    ELSE IF p = "update_db" THEN 4
    ELSE IF p = "notify" THEN 5
    ELSE 6

\* the run has written the state store once, and the file holds the marker
\* and the record of this run
Persisted ==
    /\ run.writes = 1
    /\ dbFile = write_db_file(
                   NewRecord(run.dbAtStart, loc.site_last_changed_date, loc.legacy_data))

\* every screening notification dispatched tells the record the file holds
NotifiedFromStore ==
    \A i \in Screenings(webhook) :
        LET p == webhook[i].payload
        IN  DictGet(open_db_file(dbFile), "latest_movie_data") =
                legacy_format(p.title, p.when, p.where, p.book, p.details)

\* C24: within a run the steps follow the order page fetch, state read and
\* change detection, field extraction, state-store write, notification:
\* during the page fetch nothing was read or compared, during change
\* detection nothing was extracted, during extraction the changed branch
\* was taken and nothing was written, the write follows the extraction,
\* and the notification step is entered, and a screening notification is
\* dispatched, only once the state store holds the marker and the record
\* of this run; the notification tells that record.
C24_PipelineOrdering ==
    /\ PipelineStep(pc) = 1 =>
          (loc = NoLocals /\ run.branch = "none" /\ ~run.extracted /\ run.writes = 0)
    /\ PipelineStep(pc) = 2 => (~run.extracted /\ run.writes = 0)
    /\ PipelineStep(pc) = 3 => (run.branch = "changed" /\ run.writes = 0)
    /\ PipelineStep(pc) = 4 => (run.extracted /\ run.writes = 0)
    /\ run.extracted => run.branch = "changed"
    /\ run.writes > 0 => run.extracted
    /\ pc = "notify" => Persisted
    /\ Screenings(webhook) # {} => (Persisted /\ NotifiedFromStore)

\* a screening notification was dispatched after the write of its record
C24_Witness ==
    /\ Screenings(webhook) # {}
    /\ Persisted
    /\ run.extracted
    /\ run.branch = "changed"


\* C25: once a run has written the state store, the file holds as
\* last_changed_date the marker the run obtained, which is not None, and
\* the run had extracted a record before it wrote.
C25_NoWriteWithoutMarker ==
    run.writes > 0 =>
        /\ run.extracted
        /\ loc.site_last_changed_date # None
        /\ DictGet(open_db_file(dbFile), "last_changed_date") = loc.site_last_changed_date


\* C26: a call of create_context made when no initialize_browser has
\* returned since the last cleanup raises RuntimeError and leaves the engine
\* without a context; a call of navigate_to_page made when no create_context
\* has returned since the last cleanup raises RuntimeError, returns no page
\* and opens no page in the context.
C26_EngineProtocol ==
    [][ /\ (loc'.op = "create_context" /\ ~run.initialized) =>
              (loc'.outcome = "RuntimeError" /\ ~engine'.context)
        /\ (loc'.op = "navigate_to_page" /\ ~run.contexted) =>
              (loc'.outcome = "RuntimeError" /\ ~loc'.page /\ loc'.pages = loc.pages)
      ]_vars

\* C27: of the resources the engine held when cleanup() was last called,
\* each has had its close/stop operation invoked by that call.
C27_ResourceRelease == run.held \subseteq run.closed


\* C28: when go() has finished, by returning or with an exception in
\* flight, on whatever branch and whatever step raised, cleanup() has run
\* after the last step: is_initialized is false and the engine holds no
\* browser, no context and no driver.
C28_CleanupOnEveryPath ==
    run.result \in { "returned", "raised" } =>
        /\ pc = "idle"
        /\ ~is_initialized(engine)
        /\ ~engine.is_initialized
        /\ ~engine.browser
        /\ ~engine.context
        /\ ~engine.playwright

\* a run whose notification of the error raised too, after the context
\* had been created
C28_Witness ==
    /\ run.result = "raised"
    /\ run.failedAt = "navigate_to_page"
    /\ engine = NoEngine


\* C29: when the state store held a last_changed_date at the start of a
\* run, it holds one at every moment of the run; the file is the same as at
\* the start until the run writes, and once the run has written, the marker
\* it holds is lexically strictly greater than the one held at the start.
\* Runs follow one another, each starting from the file the last one left.
C29_StoredMarkerMonotonic ==
    LET before == StoredMarker(run.dbAtStart)
        now    == StoredMarker(dbFile)
    IN  (run.result # "never" /\ before # None) =>
            /\ now # None
            /\ run.writes = 0 => dbFile = run.dbAtStart
            /\ run.writes > 0 => StrLess(before.s, now.s)

\* a run that found no marker on the page has replaced the stored marker
\* "1" by the text of the clock
C29_Witness ==
    /\ run.writes > 0
    /\ ~run.markerFound
    /\ StoredMarker(run.dbAtStart) = Str(<<49>>)
    /\ StrLess(<<49>>, StoredMarker(dbFile).s)


\* the run has read from the page a marker newer, as text, than every
\* marker an earlier run read from the page
NewestPageMarker ==
    /\ run.markerFound
    /\ Truthy(loc.site_last_changed_date)
    /\ Truthy(prev) => StrLess(prev.s, loc.site_last_changed_date.s)

\* C30: a run that has read from the page a marker strictly newer than
\* every page marker read by earlier runs, and has compared it with the
\* stored one, has taken the changed branch, whose first step is the search
\* for the movie URL.
C30_NoMissedUpdate ==
    (NewestPageMarker /\ run.branch # "none") => run.branch = "changed"

====
